---- MODULE Spec2Model ----
(***************************************************************************)
(* Model of the PDF structure pipeline of docmind_project:                 *)
(*   chat/advanced_pdf_service.py  AdvancedPDFExtractor (open, per-page    *)
(*   extraction, table detection, reading-order composition) and           *)
(*   PDFToEditableConverter (Quill Delta ops, Fabric.js objects);          *)
(*   chat/pdf_generator.py  PDFDocumentGenerator (plain content, stored    *)
(*   structure with a modification map);                                   *)
(*   chat/editor_views.py  the views that store and return editor content. *)
(*                                                                         *)
(* Conventions.  Python strings are sequences of one-character strings,    *)
(* so that strip(), split(), join() and concatenation are computed and not *)
(* assumed.  Python lists are sequences (1-based here, 0-based there: a    *)
(* bbox [x0, y0, x1, y1] is <<x0, y0, x1, y1>> and bbox[1] is bbox[2]).    *)
(* Coordinates are integers (PDF points).  PyMuPDF itself is outside the   *)
(* repository: a page is a record holding what its calls return, or the    *)
(* fact that a call raises.  A character outside ASCII is written by its   *)
(* code point, as in "U+2500".                                             *)
(***************************************************************************)
EXTENDS Integers, Sequences, FiniteSets, TLC

VARIABLES
  file,        \* the file at pdf_path: kind, and the document PyMuPDF sees in it
  pc,          \* "new" | "failed" | "idle" | "loop": where the extractor is
  raised,      \* the exception the last call raised to its caller, or NoError
  stats,       \* self.stats
  page_num,    \* loop variable of extract_full_document
  pages_data,  \* pages_data of the running extract_full_document call
  result,      \* what the last extract_full_document call returned, or None
  calls,       \* number of extract_full_document calls started
  delta,       \* what convert_to_quill_delta returned for result, or None
  fabric,      \* what convert_to_fabric_objects returned for result, or None
  request,     \* the arguments of the PDFDocumentGenerator call made, or None
  story,       \* the flowables that call appended to its story
  generated,   \* "none" | "pdf" (the call returned a buffer) | "raised"
  args,        \* the arguments a helper of the extractor is called with, or None
  answer,      \* what the helper returned for args, or None
  db,          \* the rows of Document and DocumentContent of one document id
  clock,       \* the number of requests the editor views have handled
  http,        \* the last request to an editor view and its response, or None
  last_save    \* what the last writing request stored, if it was a save

\* the variables of the extractor and its converter
ext_vars == <<file, pc, raised, stats, page_num, pages_data, result, calls, delta, fabric>>
\* the variables of PDFDocumentGenerator calls
gen_vars == <<request, story, generated>>
\* the variables of a call of one helper
fn_vars == <<args, answer>>
\* the variables of the editor views
view_vars == <<db, clock, http, last_save>>

vars == <<file, pc, raised, stats, page_num, pages_data, result, calls, delta, fabric,
          request, story, generated, args, answer, db, clock, http, last_save>>

None == <<>>          \* an absent value; a present value v is <<v>>
Some(v) == <<v>>
NoError == [type |-> "none", msg |-> <<>>]
\* no Document row and no DocumentContent row
NoRows == [document |-> None, doc_content |-> None]

-----------------------------------------------------------------------------
(* Arithmetic and sequence helpers (Python built-ins)                      *)

Abs(n) == IF n < 0 THEN -n ELSE n
Min2(a, b) == IF a <= b THEN a ELSE b
Max2(a, b) == IF a >= b THEN a ELSE b
SetMin(S) == CHOOSE m \in S : \A n \in S : m <= n
SetMax(S) == CHOOSE m \in S : \A n \in S : m >= n
Range(s) == {s[i] : i \in 1..Len(s)}

\* Python round(n / d) for d > 0: round half to even.
PyRound(n, d) ==
  LET q == n \div d
      r == n % d
  IN IF 2 * r < d THEN q
     ELSE IF 2 * r > d THEN q + 1
     ELSE IF q % 2 = 0 THEN q ELSE q + 1

RECURSIVE Concat(_)
\* ''.join(parts), and list concatenation of a list of lists
Concat(parts) ==
  IF parts = <<>> THEN <<>> ELSE Head(parts) \o Concat(Tail(parts))

RECURSIVE Join(_, _)
\* sep.join(parts)
Join(parts, sep) ==
  IF parts = <<>> THEN <<>>
  ELSE IF Len(parts) = 1 THEN parts[1]
  ELSE parts[1] \o sep \o Join(Tail(parts), sep)

Whitespace == {" ", "\n", "\t"}

\* str.strip()
strip(s) ==
  LET keep == {i \in 1..Len(s) : s[i] \notin Whitespace}
  IN IF keep = {} THEN <<>> ELSE SubSeq(s, SetMin(keep), SetMax(keep))

\* needle in s (substring test)
Contains(s, needle) ==
  \E i \in 1..(Len(s) - Len(needle) + 1) : SubSeq(s, i, i + Len(needle) - 1) = needle

\* s.split(c)[-1]: what follows the last c
AfterLast(s, c) ==
  LET at == {i \in 1..Len(s) : s[i] = c}
  IN IF at = {} THEN s ELSE SubSeq(s, SetMax(at) + 1, Len(s))

\* s.split(c)[0]: what precedes the first c
BeforeFirst(s, c) ==
  LET at == {i \in 1..Len(s) : s[i] = c}
  IN IF at = {} THEN s ELSE SubSeq(s, 1, SetMin(at) - 1)

\* list.sort(key=...) and sorted(..., key=...): the stable sort of s, Lt(a, b)
\* being key(a) < key(b).  Element i goes after the elements of smaller key
\* and after the earlier elements of equal key.
StableSort(s, Lt(_, _)) ==
  LET n == Len(s)
      rank(i) == 1 + Cardinality({j \in 1..n :
                      Lt(s[j], s[i]) \/ (~Lt(s[i], s[j]) /\ j < i)})
  IN [p \in 1..n |-> s[CHOOSE i \in 1..n : rank(i) = p]]

\* sorted(S) for a set S of integers
SortedSet(S) ==
  [p \in 1..Cardinality(S) |->
     CHOOSE v \in S : Cardinality({w \in S : w < v}) = p - 1]

\* font.split('+')[-1].split('-')[0]
FontBaseName(font) == BeforeFirst(AfterLast(font, "+"), "-")

-----------------------------------------------------------------------------
(* Geometry and style primitives                                           *)

InsideTolerance == 5

\* containment without the tolerance
_is_inside_exact(inner_bbox, outer_bbox) ==
  /\ inner_bbox[1] >= outer_bbox[1]
  /\ inner_bbox[2] >= outer_bbox[2]
  /\ inner_bbox[3] <= outer_bbox[3]
  /\ inner_bbox[4] <= outer_bbox[4]

_is_inside(inner_bbox, outer_bbox) ==
  /\ inner_bbox[1] >= outer_bbox[1] - InsideTolerance
  /\ inner_bbox[2] >= outer_bbox[2] - InsideTolerance
  /\ inner_bbox[3] <= outer_bbox[3] + InsideTolerance
  /\ inner_bbox[4] <= outer_bbox[4] + InsideTolerance

\* the threshold taken as a strict bound
_boxes_overlap_strict(bbox1, bbox2, thr_num, thr_den) ==
  LET x_overlap == Max2(0, Min2(bbox1[3], bbox2[3]) - Max2(bbox1[1], bbox2[1]))
      y_overlap == Max2(0, Min2(bbox1[4], bbox2[4]) - Max2(bbox1[2], bbox2[2]))
      bbox1_area == (bbox1[3] - bbox1[1]) * (bbox1[4] - bbox1[2])
      bbox2_area == (bbox2[3] - bbox2[1]) * (bbox2[4] - bbox2[2])
  IN x_overlap * y_overlap * thr_den > thr_num * Min2(bbox1_area, bbox2_area)

\* the boxes compared without the early return for an empty intersection
_boxes_overlap_unguarded(bbox1, bbox2, thr_num, thr_den) ==
  LET x_overlap == Max2(0, Min2(bbox1[3], bbox2[3]) - Max2(bbox1[1], bbox2[1]))
      y_overlap == Max2(0, Min2(bbox1[4], bbox2[4]) - Max2(bbox1[2], bbox2[2]))
      bbox1_area == (bbox1[3] - bbox1[1]) * (bbox1[4] - bbox1[2])
      bbox2_area == (bbox2[3] - bbox2[1]) * (bbox2[4] - bbox2[2])
  IN x_overlap * y_overlap * thr_den >= thr_num * Min2(bbox1_area, bbox2_area)

\* threshold is the rational thr_num / thr_den (0.5 is 1 / 2)
_boxes_overlap(bbox1, bbox2, thr_num, thr_den) ==
  LET x_overlap == Max2(0, Min2(bbox1[3], bbox2[3]) - Max2(bbox1[1], bbox2[1]))
      y_overlap == Max2(0, Min2(bbox1[4], bbox2[4]) - Max2(bbox1[2], bbox2[2]))
      intersection_area == x_overlap * y_overlap
      bbox1_area == (bbox1[3] - bbox1[1]) * (bbox1[4] - bbox1[2])
      bbox2_area == (bbox2[3] - bbox2[1]) * (bbox2[4] - bbox2[2])
      smaller == Min2(bbox1_area, bbox2_area)
  IN IF x_overlap = 0 \/ y_overlap = 0 THEN FALSE
     \* intersection_area / smaller >= thr_num / thr_den, smaller > 0 here
     ELSE intersection_area * thr_den >= thr_num * smaller

HexDigits == <<"0", "1", "2", "3", "4", "5", "6", "7",
               "8", "9", "a", "b", "c", "d", "e", "f">>

\* f'{v:02x}' for 0 <= v <= 255
Hex2(v) == <<HexDigits[(v \div 16) + 1], HexDigits[(v % 16) + 1]>>

\* the channels read in the order blue, green, red
_int_to_rgb_hex_bgr(color_int) ==
  <<"#">> \o Hex2(color_int % 256) \o Hex2((color_int \div 256) % 256)
          \o Hex2((color_int \div 65536) % 256)

_int_to_rgb_hex(color_int) ==
  LET r == (color_int \div 65536) % 256
      g == (color_int \div 256) % 256
      b == color_int % 256
  IN <<"#">> \o Hex2(r) \o Hex2(g) \o Hex2(b)

Black == <<"#", "0", "0", "0", "0", "0", "0">>

-----------------------------------------------------------------------------
(* Low-level reader: text.  page.get_text("dict") is page.blocks: each raw *)
(* block is [type, bbox, lines], each line [bbox, spans], each raw span    *)
(* [text, size, font, flags, color, bbox] with color the packed integer.   *)

BoldWord == <<"B", "o", "l", "d">>
ItalicWord == <<"I", "t", "a", "l", "i", "c">>
ObliqueWord == <<"O", "b", "l", "i", "q", "u", "e">>

\* flags & 2 ** k, as a truth value
FlagBit(flags, k) == (flags \div (2 ^ k)) % 2 = 1

span_data(span) ==
  [text   |-> span.text,
   size   |-> span.size,
   font   |-> span.font,
   bold   |-> Contains(span.font, BoldWord) \/ FlagBit(span.flags, 4),
   italic |-> \/ Contains(span.font, ItalicWord)
              \/ Contains(span.font, ObliqueWord)
              \/ FlagBit(span.flags, 1),
   color  |-> _int_to_rgb_hex(span.color),
   bbox   |-> span.bbox]

line_data(line) ==
  [bbox  |-> line.bbox,
   spans |-> [i \in 1..Len(line.spans) |-> span_data(line.spans[i])]]

block_data(block) ==
  LET lines == [i \in 1..Len(block.lines) |-> line_data(block.lines[i])]
  IN [bbox  |-> block.bbox,
      lines |-> SelectSeq(lines, LAMBDA l : l.spans # <<>>)]

\* Raises when page.get_text raises; the caller tests page.get_text first.
_extract_formatted_text(page) ==
  LET textual == SelectSeq(page.blocks, LAMBDA b : b.type = 0)
      blocks  == [i \in 1..Len(textual) |-> block_data(textual[i])]
  IN SelectSeq(blocks, LAMBDA b : b.lines # <<>>)

-----------------------------------------------------------------------------
(* Low-level reader: images.  page.get_images(full=True) is                *)
(* page.image_list; each entry is [xref, extract, ext, size, rects]:       *)
(* extract is "ok", "empty" (no image bytes) or "raise"                    *)
(* (doc.extract_image raises), size is <<w, h>> or <<>> when the header    *)
(* cannot be decoded, rects is what page.get_image_rects returns (empty    *)
(* also when it raises).                                                   *)

DefaultImageSide == 100

image_data(img_info, page_index) ==
  LET width  == IF img_info.size = <<>> THEN DefaultImageSide ELSE img_info.size[1]
      height == IF img_info.size = <<>> THEN DefaultImageSide ELSE img_info.size[2]
  IN [data   |-> <<"data:image/", img_info.ext, ";base64,", img_info.xref>>,
      width  |-> width,
      height |-> height,
      bbox   |-> IF img_info.rects # <<>> THEN img_info.rects[1]
                 ELSE <<0, 0, width, height>>,
      ext    |-> img_info.ext,
      xref   |-> img_info.xref,
      page   |-> page_index + 1]

\* Never raises: a failing page.get_images is caught inside (line 429) and
\* the images found so far, none, are returned.
_extract_images(page, page_index) ==
  IF page.get_images = "raise" THEN <<>>
  ELSE LET usable == SelectSeq(page.image_list, LAMBDA e : e.extract = "ok")
       IN [i \in 1..Len(usable) |-> image_data(usable[i], page_index)]

-----------------------------------------------------------------------------
(* Table detector, strategy A (ruled lines).  page.get_drawings() is       *)
(* page.drawings, a list of drawings, each a list of items; an item is     *)
(* [type, c, nonnum]: the tuple (type, c[1], ..., c[n]) whose coordinates  *)
(* at the indices in nonnum are not numbers (None: arithmetic on them and  *)
(* comparing them raise TypeError).  A segment is <<x0, y0, x1, y1>>.      *)

LineTolerance == 2
GroupTolerance == 5

\* The segments one item adds to horizontal_lines (h = TRUE) or
\* vertical_lines (h = FALSE).  A TypeError ends the item where it occurs:
\* what was appended before it stays.
item_lines(item, h) ==
  LET c == item.c
      num(i) == i \notin item.nonnum
  IN IF 1 + Len(c) < 2 THEN <<>>
     ELSE IF item.type = "l" /\ 1 + Len(c) >= 5 THEN
       IF ~(num(2) /\ num(4)) THEN <<>>
       ELSE IF Abs(c[2] - c[4]) < LineTolerance THEN
         IF h /\ num(1) /\ num(3)
           THEN << <<Min2(c[1], c[3]), c[2], Max2(c[1], c[3]), c[4]>> >>
           ELSE <<>>
       ELSE IF ~(num(1) /\ num(3)) THEN <<>>
       ELSE IF Abs(c[1] - c[3]) < LineTolerance /\ ~h
         THEN << <<c[1], Min2(c[2], c[4]), c[3], Max2(c[2], c[4])>> >>
         ELSE <<>>
     ELSE IF item.type = "re" /\ 1 + Len(c) >= 5 THEN
       LET x == c[1]
           y == c[2]
           w == c[3]
           ht == c[4]
       IN IF ~(num(1) /\ num(3)) THEN <<>>
          \* (x, y, x + w, y) is appended before y + h is evaluated; with a
          \* non-numeric y the appended segment is not comparable (5 entries)
          ELSE IF ~(num(2) /\ num(4))
            THEN IF ~h THEN <<>>
                 ELSE IF num(2) THEN << <<x, y, x + w, y>> >>
                 ELSE << <<x, 0, x + w, 0, "nonnumeric">> >>
          ELSE IF h THEN << <<x, y, x + w, y>>, <<x, y + ht, x + w, y + ht>> >>
          ELSE << <<x, y, x, y + ht>>, <<x + w, y, x + w, y + ht>> >>
     ELSE <<>>

drawing_lines(page, h) ==
  Concat([d \in 1..Len(page.drawings) |->
    Concat([k \in 1..Len(page.drawings[d]) |-> item_lines(page.drawings[d][k], h)])])

\* tuple comparison of segments, for sorted(set(lines), key=...)
SegLt(a, b, k1, k2) ==
  \/ a[k1] < b[k1]
  \/ a[k1] = b[k1] /\ a[k2] < b[k2]

\* sorted(set(lines), key=lambda l: (l[k1], l[k2])); segments equal in the
\* key share l[k1], what grouping reads, so their order among themselves
\* does not show in the groups' boundaries
sorted_lines(lines, k1, k2) ==
  LET S == Range(lines)
      Lt(a, b) == \/ SegLt(a, b, k1, k2)
                  \/ ~SegLt(b, a, k1, k2) /\ \E i \in 1..4 :
                       a[i] < b[i] /\ \A j \in 1..(i - 1) : a[j] = b[j]
  IN [p \in 1..Cardinality(S) |->
        CHOOSE v \in S : Cardinality({w \in S : Lt(w, v)}) = p - 1]

RECURSIVE group_lines_from_first(_, _, _)
\* a segment joins the current group when within 5 of the group's first one
group_lines_from_first(lines, k, groups) ==
  IF lines = <<>> THEN groups
  ELSE LET line == Head(lines)
           current_group == groups[Len(groups)]
       IN IF Abs(line[k] - current_group[1][k]) < GroupTolerance
            THEN group_lines_from_first(Tail(lines), k,
                   [groups EXCEPT ![Len(groups)] = Append(current_group, line)])
            ELSE group_lines_from_first(Tail(lines), k, Append(groups, <<line>>))

RECURSIVE group_lines(_, _, _)
\* The grouping loops of lines 545-579 on sorted segments: a segment joins
\* the current group when its coordinate k is within 5 of the group's LAST
\* segment.  groups is the list of closed groups followed by the current one.
group_lines(lines, k, groups) ==
  IF lines = <<>> THEN groups
  ELSE LET line == Head(lines)
           current_group == groups[Len(groups)]
       IN IF Abs(line[k] - current_group[Len(current_group)][k]) < GroupTolerance
            THEN group_lines(Tail(lines), k,
                   [groups EXCEPT ![Len(groups)] = Append(current_group, line)])
            ELSE group_lines(Tail(lines), k, Append(groups, <<line>>))

\* h_groups (lines 536, 545-560) of the horizontal segments, not empty
h_groups_of(h_lines_in) ==
  LET h_lines == sorted_lines(h_lines_in, 2, 1)
  IN group_lines(Tail(h_lines), 2, << <<h_lines[1]>> >>)

\* v_groups (lines 537, 562-579) of the vertical segments, not empty
v_groups_of(v_lines_in) ==
  LET v_lines == sorted_lines(v_lines_in, 1, 2)
  IN group_lines(Tail(v_lines), 1, << <<v_lines[1]>> >>)

\* page.get_textbox(rect): the text of the spans lying in rect, one line of
\* the page per line of text.  Raises when the page's text cannot be read.
get_textbox(page, rect) ==
  LET textual == SelectSeq(page.blocks, LAMBDA b : b.type = 0)
      lines   == Concat([i \in 1..Len(textual) |-> textual[i].lines])
      inside(sp) == /\ sp.bbox[1] >= rect[1] /\ sp.bbox[2] >= rect[2]
                    /\ sp.bbox[3] <= rect[3] /\ sp.bbox[4] <= rect[4]
      text_of(l) == Concat([i \in 1..Len(l.spans) |->
                      IF inside(l.spans[i]) THEN l.spans[i].text ELSE <<>>])
      texts == SelectSeq([i \in 1..Len(lines) |-> text_of(lines[i])],
                         LAMBDA t : t # <<>>)
  IN Join(texts, <<"\n">>)

\* the cells of every band between two row boundaries, a band without text
\* among them
_extract_table_cells_all_rows(page, h_groups, v_groups) ==
  LET h_positions == SortedSet({h_groups[g][1][2] : g \in 1..Len(h_groups)})
      v_positions == SortedSet({v_groups[g][1][1] : g \in 1..Len(v_groups)})
      cell(i, j) ==
        IF page.get_text = "raise" THEN <<>>
        ELSE strip(get_textbox(page, <<v_positions[j], h_positions[i],
                                       v_positions[j + 1], h_positions[i + 1]>>))
      row(i) == [j \in 1..(Len(v_positions) - 1) |-> cell(i, j)]
  IN IF Len(h_positions) < 2 \/ Len(v_positions) < 2 THEN <<>>
     ELSE [i \in 1..(Len(h_positions) - 1) |-> row(i)]

_extract_table_cells(page, h_groups, v_groups) ==
  LET h_positions == SortedSet({h_groups[g][1][2] : g \in 1..Len(h_groups)})
      v_positions == SortedSet({v_groups[g][1][1] : g \in 1..Len(v_groups)})
      cell(i, j) ==
        IF page.get_text = "raise" THEN <<>>
        ELSE strip(get_textbox(page, <<v_positions[j], h_positions[i],
                                       v_positions[j + 1], h_positions[i + 1]>>))
      row(i) == [j \in 1..(Len(v_positions) - 1) |-> cell(i, j)]
      rows == [i \in 1..(Len(h_positions) - 1) |-> row(i)]
  IN IF Len(h_positions) < 2 \/ Len(v_positions) < 2 THEN <<>>
     ELSE SelectSeq(rows, LAMBDA r : \E j \in 1..Len(r) : r[j] # <<>>)

_detect_tables_from_lines(page, h_lines_in, v_lines_in) ==
  IF h_lines_in = <<>> \/ v_lines_in = <<>> THEN <<>>
  \* a segment with a non-numeric y: sorting raises TypeError (line 538), or,
  \* when every y is non-numeric, grouping does and one group remains
  ELSE IF \E i \in 1..Len(h_lines_in) : Len(h_lines_in[i]) # 4 THEN <<>>
  ELSE
    LET h_groups == h_groups_of(h_lines_in)
        v_groups == v_groups_of(v_lines_in)
        all == Range(h_lines_in) \cup Range(v_lines_in)
        bbox == <<SetMin({l[1] : l \in all}), SetMin({l[2] : l \in all}),
                  SetMax({l[3] : l \in all}), SetMax({l[4] : l \in all})>>
        rows == _extract_table_cells(page, h_groups, v_groups)
    IN IF Len(h_groups) >= 2 /\ Len(v_groups) >= 2 /\ rows # <<>>
         THEN << [rows     |-> rows,
                  bbox     |-> bbox,
                  num_rows |-> Len(h_groups) - 1,
                  num_cols |-> Len(v_groups) - 1,
                  type     |-> "grid"] >>
         ELSE <<>>

-----------------------------------------------------------------------------
(* Table detector, strategy B (text alignment)                             *)

LineRounding == 5
LineClusterTolerance == 5
ColumnRounding == 10

\* all_words (lines 684-717): the stripped, non-empty spans of the text blocks
all_words_of(page) ==
  LET textual == SelectSeq(page.blocks, LAMBDA b : b.type = 0)
      lines   == SelectSeq(Concat([i \in 1..Len(textual) |-> textual[i].lines]),
                           LAMBDA l : Len(l.bbox) >= 4)
      spans   == SelectSeq(Concat([i \in 1..Len(lines) |-> lines[i].spans]),
                           LAMBDA sp : Len(sp.bbox) >= 4 /\ strip(sp.text) # <<>>)
  IN [i \in 1..Len(spans) |->
        [text |-> strip(spans[i].text), bbox |-> spans[i].bbox,
         x |-> spans[i].bbox[1], y |-> spans[i].bbox[2]]]

WordLt(a, b) ==
  LET ra == PyRound(a.y, LineRounding) * LineRounding
      rb == PyRound(b.y, LineRounding) * LineRounding
  IN ra < rb \/ (ra = rb /\ a.x < b.x)

RECURSIVE cluster_lines_chain(_, _, _)
\* a word joins current_line when its y is within 5 of the line's last word
cluster_lines_chain(words, current_line, lines) ==
  IF words = <<>>
    THEN IF Len(current_line) >= 2 THEN Append(lines, current_line) ELSE lines
  ELSE LET word == Head(words)
       IN IF Abs(word.y - current_line[Len(current_line)].y) < LineClusterTolerance
            THEN cluster_lines_chain(Tail(words), Append(current_line, word), lines)
            ELSE cluster_lines_chain(Tail(words), <<word>>,
                   IF Len(current_line) >= 2 THEN Append(lines, current_line)
                   ELSE lines)

RECURSIVE cluster_lines(_, _, _)
\* lines 729-744: a word joins current_line when its y is within 5 of the
\* FIRST word of current_line; a line is kept when it has at least 2 words
cluster_lines(words, current_line, lines) ==
  IF words = <<>>
    THEN IF Len(current_line) >= 2 THEN Append(lines, current_line) ELSE lines
  ELSE LET word == Head(words)
       IN IF Abs(word.y - current_line[1].y) < LineClusterTolerance
            THEN cluster_lines(Tail(words), Append(current_line, word), lines)
            ELSE cluster_lines(Tail(words), <<word>>,
                   IF Len(current_line) >= 2 THEN Append(lines, current_line)
                   ELSE lines)

column_of(word) == PyRound(word.x, ColumnRounding) * ColumnRounding

RECURSIVE fill_row(_, _, _)
\* row[col_idx] = word['text'] for the words of a line in order
fill_row(row, words, x_sorted) ==
  IF words = <<>> THEN row
  ELSE LET col_idx == CHOOSE c \in 1..Len(x_sorted) : x_sorted[c] = column_of(Head(words))
       IN fill_row([row EXCEPT ![col_idx] = Head(words).text], Tail(words), x_sorted)

\* all_words after the sort of line 724
sorted_words(page) == StableSort(all_words_of(page), WordLt)

\* lines (lines 727-744): the clusters of at least 2 words
lines_of_words(page) ==
  LET all_words == sorted_words(page)
  IN IF all_words = <<>> THEN <<>>
     ELSE cluster_lines(Tail(all_words), <<all_words[1]>>, <<>>)

_detect_tables_from_text_alignment(page) ==
  IF page.get_text = "raise" THEN <<>>
  ELSE
    LET lines == lines_of_words(page)
        kept_words == Range(Concat(lines))
        x_sorted == SortedSet({column_of(w) : w \in kept_words})
        rows == [i \in 1..Len(lines) |->
                   fill_row([c \in 1..Len(x_sorted) |-> <<>>], lines[i], x_sorted)]
    IN IF Len(lines) >= 2 /\ Len(x_sorted) >= 2 /\ Len(rows) >= 2
         THEN << [rows     |-> rows,
                  bbox     |-> <<SetMin({w.bbox[1] : w \in kept_words}),
                                 SetMin({w.bbox[2] : w \in kept_words}),
                                 SetMax({w.bbox[3] : w \in kept_words}),
                                 SetMax({w.bbox[4] : w \in kept_words})>>,
                  num_rows |-> Len(rows),
                  num_cols |-> Len(x_sorted),
                  type     |-> "aligned"] >>
         ELSE <<>>

-----------------------------------------------------------------------------
(* Table detector: both strategies, merged                                 *)

RECURSIVE merge_tables(_, _)
\* lines 496-513: a text table is appended unless it overlaps a table
\* already in tables at threshold 0.5
merge_tables(tables, tables_from_text) ==
  IF tables_from_text = <<>> THEN tables
  ELSE LET text_table == Head(tables_from_text)
           is_duplicate == \E k \in 1..Len(tables) :
                             _boxes_overlap(text_table.bbox, tables[k].bbox, 1, 2)
       IN merge_tables(IF is_duplicate THEN tables ELSE Append(tables, text_table),
                       Tail(tables_from_text))

\* Never raises: every failure is caught inside (lines 487, 514, 518).
_extract_tables(page) ==
  LET horizontal_lines == IF page.get_drawings = "raise" THEN <<>>
                          ELSE drawing_lines(page, TRUE)
      vertical_lines   == IF page.get_drawings = "raise" THEN <<>>
                          ELSE drawing_lines(page, FALSE)
      tables_from_lines ==
        _detect_tables_from_lines(page, horizontal_lines, vertical_lines)
  IN merge_tables(tables_from_lines, _detect_tables_from_text_alignment(page))

-----------------------------------------------------------------------------
(* Reading-order compositor (extract_full_document, lines 147-217)         *)

\* bbox[1] if bbox and len(bbox) > 1 else 0
top_y(bbox) == IF Len(bbox) > 1 THEN bbox[2] ELSE 0

element(type, data) ==
  [type |-> type, data |-> data, y |-> top_y(data.bbox), bbox |-> data.bbox]

all_elements_of(text_blocks, images, tables) ==
     [i \in 1..Len(text_blocks) |-> element("text", text_blocks[i])]
  \o [i \in 1..Len(images) |-> element("image", images[i])]
  \o [i \in 1..Len(tables) |-> element("table", tables[i])]

\* the elements left in the order they were appended
sort_elements_skipped(all_elements) == all_elements

\* all_elements.sort(key=lambda el: el.get('y', 0))
sort_elements(all_elements) ==
  StableSort(all_elements, LAMBDA a, b : a.y < b.y)

\* is_in_table of lines 202-210
is_in_table(el, all_elements) ==
  \E k \in 1..Len(all_elements) :
    /\ all_elements[k].type = "table"
    /\ _is_inside(el.bbox, all_elements[k].bbox)

filter_elements(all_elements) ==
  SelectSeq(all_elements,
            LAMBDA el : el.type # "text" \/ ~is_in_table(el, all_elements))

-----------------------------------------------------------------------------
(* One iteration of the page loop of extract_full_document                 *)

DefaultPageWidth == 595
DefaultPageHeight == 842

TextWarning == "Echec extraction texte"
ImagesWarning == "Echec extraction images"
TablesWarning == "Echec extraction tableaux"
MetadataWarning == "Metadonnees non disponibles"
LoadError == "ValueError"

\* doc[page_num]: the pages of an encrypted document cannot be loaded
page_loads(f, n) == f.kind # "encrypted" /\ f.pages[n].load

\* pages_data entry of a page whose processing raised (lines 247-256)
empty_page(page_no, e) ==
  [page_number |-> page_no, text_blocks |-> <<>>, images |-> <<>>,
   tables |-> <<>>, elements |-> <<>>,
   width |-> DefaultPageWidth, height |-> DefaultPageHeight, error |-> e]

\* Whether the call of a sub-step raises into extract_full_document.
\* _extract_formatted_text has no handler of its own; _extract_images and
\* _extract_tables catch every exception themselves (lines 429 and 518) and
\* return what they have, so the handlers of lines 133 and 143 never run.
text_step_raises(page) == page.get_text = "raise"
images_step_raises(page) == FALSE
tables_step_raises(page) == FALSE

\* pages_data entry of a page that was processed (lines 117-236); page_no is
\* page_num + 1
page_entry(page, page_no) ==
  LET text_blocks == IF text_step_raises(page) THEN <<>>
                     ELSE _extract_formatted_text(page)
      images == _extract_images(page, page_no - 1)
      tables == _extract_tables(page)
      all_elements == sort_elements(all_elements_of(text_blocks, images, tables))
  IN [page_number |-> page_no, text_blocks |-> text_blocks, images |-> images,
      tables |-> tables, elements |-> filter_elements(all_elements),
      width |-> page.width, height |-> page.height]

\* self.stats after the iteration
stats_after(st, f, page_no) ==
  IF ~page_loads(f, page_no)
    THEN [st EXCEPT !.errors = Append(@, [page |-> page_no, text |-> LoadError])]
  ELSE LET page == f.pages[page_no]
           entry == page_entry(page, page_no)
           warn(raises, text) ==
             IF raises THEN << [page |-> page_no, text |-> text] >> ELSE <<>>
       IN [st EXCEPT
             !.text_blocks = @ + Len(entry.text_blocks),
             !.images_extracted = @ + Len(entry.images),
             !.tables_detected = @ + Len(entry.tables),
             !.warnings = @ \o warn(text_step_raises(page), TextWarning)
                            \o warn(images_step_raises(page), ImagesWarning)
                            \o warn(tables_step_raises(page), TablesWarning),
             !.pages_extracted = @ + 1]

-----------------------------------------------------------------------------
(* AdvancedPDFExtractor.__init__                                           *)

NotFoundText == "Fichier PDF introuvable: "
CorruptText == "Fichier PDF corrompu: "
CannotOpenText == "Impossible d'ouvrir le PDF: "

\* The exception __init__ raises, or NoError.  file.kind says what is at
\* pdf_path:
\*   "missing"    nothing: os.path.exists is false, the PDFExtractionError of
\*                line 50 is raised inside the try and wrapped at line 63
\*   "removed"    fitz.open raises FileNotFoundError (gone after the test)
\*   "corrupt"    fitz.open raises FileDataError (damaged, truncated, empty)
\*   "unreadable" fitz.open raises another exception
\*   "encrypted"  a password-protected PDF: fitz.open returns a document that
\*                needs a password; len(doc) succeeds or raises (len_ok)
\*   "valid"      fitz.open returns the document
init_error(f, len_ok) ==
  CASE f.kind = "missing" ->
         [type |-> "PDFExtractionError", msg |-> <<CannotOpenText, NotFoundText, f.path>>]
    [] f.kind = "removed" ->
         [type |-> "PDFExtractionError", msg |-> <<NotFoundText, f.path>>]
    [] f.kind = "corrupt" ->
         [type |-> "PDFExtractionError", msg |-> <<CorruptText, f.path>>]
    [] f.kind = "unreadable" ->
         [type |-> "PDFExtractionError", msg |-> <<CannotOpenText, "RuntimeError">>]
    [] f.kind = "encrypted" /\ ~len_ok ->
         [type |-> "PDFExtractionError", msg |-> <<CannotOpenText, "ValueError">>]
    [] OTHER -> NoError

InitialStats ==
  [pages_extracted |-> 0, text_blocks |-> 0, images_extracted |-> 0,
   tables_detected |-> 0, errors |-> <<>>, warnings |-> <<>>]

-----------------------------------------------------------------------------
(* PDFToEditableConverter.convert_to_quill_delta.  An op is a record with  *)
(* the field insert and, only when the op has that key, the field          *)
(* attributes, a function from the attribute names present to their values.*)
(* An embedded image {'image': uri} is written <<"{image}">> \o uri.       *)

MaxImageWidth == 600
RuleLength == 50

EmptyDict == <<>>
Newline == <<"\n">>
PageWord == <<"P", "a", "g", "e", " ">>
TableHeaderText ==
  <<"U+1F4CA", " ", "T", "a", "b", "l", "e", "a", "u", " ", "d",
    "U+00E9", "t", "e", "c", "t", "U+00E9", ":", "\n">>
HeaderColor == <<"#", "6", "6", "7", "e", "e", "a">>
TableHeaderColor == <<"#", "4", "a", "5", "5", "6", "8">>

\* attributes of a span op (lines 942-965)
span_attributes(span) ==
     (IF span.bold THEN "bold" :> TRUE ELSE EmptyDict)
  @@ (IF span.italic THEN "italic" :> TRUE ELSE EmptyDict)
  @@ (IF span.color # <<>> /\ span.color # Black
        THEN "color" :> span.color ELSE EmptyDict)
  @@ (IF span.size # 0
        THEN "size" :> <<ToString(span.size), "p", "x">> ELSE EmptyDict)
  @@ (IF span.font # <<>>
        THEN "font" :> FontBaseName(span.font) ELSE EmptyDict)

\* the op of a span carrying its attributes even when it has none
span_ops_keyed(span) ==
  IF span.text = <<>> THEN <<>>
  ELSE << [insert |-> span.text, attributes |-> span_attributes(span)] >>

\* the ops of one span (lines 937-976): none for an empty text
span_ops(span) ==
  IF span.text = <<>> THEN <<>>
  ELSE LET attributes == span_attributes(span)
       IN IF DOMAIN attributes # {}
            THEN << [insert |-> span.text, attributes |-> attributes] >>
            ELSE << [insert |-> span.text] >>

line_ops(line) ==
  LET ops == Concat([i \in 1..Len(line.spans) |-> span_ops(line.spans[i])])
  IN IF ops # <<>> THEN Append(ops, [insert |-> Newline]) ELSE ops

block_ops(block) ==
     Concat([i \in 1..Len(block.lines) |-> line_ops(block.lines[i])])
  \o (IF block.lines # <<>> THEN << [insert |-> Newline] >> ELSE <<>>)

image_ops(img) ==
  LET scaled == img.width > MaxImageWidth
      width  == IF scaled THEN MaxImageWidth ELSE img.width
      \* int(height * (max_width / width))
      height == IF scaled THEN (img.height * MaxImageWidth) \div img.width
                ELSE img.height
  IN << [insert |-> <<"{image}">> \o img.data,
         attributes |-> ("width" :> ToString(width)) @@ ("height" :> ToString(height))],
        [insert |-> Newline] >>

\* the cells joined without the blanks around the bar
row_op_tight(row) == [insert |-> Join(row, <<"|">>) \o Newline]

row_op(row) == [insert |-> Join(row, <<" ", "|", " ">>) \o Newline]

table_ops(table) ==
     << [insert |-> TableHeaderText,
         attributes |-> ("bold" :> TRUE) @@ ("color" :> TableHeaderColor)] >>
  \o [i \in 1..Len(table.rows) |-> row_op(table.rows[i])]
  \o << [insert |-> Newline] >>

page_ops(page, total_pages) ==
     << [insert |-> PageWord \o <<ToString(page.page_number)>>,
         attributes |-> ("bold" :> TRUE) @@ ("color" :> HeaderColor)
                        @@ ("size" :> <<"1", "6", "p", "x">>)],
        [insert |-> Newline, attributes |-> ("align" :> <<"c", "e", "n", "t", "e", "r">>)],
        [insert |-> Newline] >>
  \o Concat([i \in 1..Len(page.text_blocks) |-> block_ops(page.text_blocks[i])])
  \o Concat([i \in 1..Len(page.images) |-> image_ops(page.images[i])])
  \o Concat([i \in 1..Len(page.tables) |-> table_ops(page.tables[i])])
  \o (IF page.page_number < total_pages
        THEN << [insert |-> Newline \o [i \in 1..RuleLength |-> "U+2500"]
                            \o Newline \o Newline] >>
        ELSE <<>>)

convert_to_quill_delta(pdf_data) ==
  [ops |-> Concat([i \in 1..Len(pdf_data.pages) |->
                     page_ops(pdf_data.pages[i], pdf_data.total_pages)])]

-----------------------------------------------------------------------------
(* PDFToEditableConverter.convert_to_fabric_objects.  Lengths are floats   *)
(* in the code.  Here every length of an object (left, top, width, height, *)
(* x1, y1, x2, y2, fontSize, canvasHeight) is an integer number of HALF    *)
(* pixels, so that v * 1.5 is exactly 3 * v half pixels; a quotient        *)
(* (a cell size) is kept as the fraction [num, den] of half pixels.        *)
(* The field role of an object is not a key of the emitted object: it      *)
(* names the statement that appends it.                                    *)

PageSpacing == 50
CanvasMargin == 50
MinCanvasWidth == 900
EmptyCanvasHeight == 1200
BadgeInset == 45
BadgeTop == 15
BadgeFontSize == 12
DefaultCellHeight == 20
DefaultCellWidth == 100

\* a length of v pixels
Px(v) == 2 * v
\* v * scale_factor, scale_factor = 1.5
Scale(v) == 3 * v

Frac(n, d) == [num |-> n, den |-> d]
\* f + v for a fraction f and a length v
FracPlus(f, v) == Frac(f.num + v * f.den, f.den)
\* k * f
FracTimes(k, f) == Frac(k * f.num, f.den)

White == <<"#", "f", "f", "f", "f", "f", "f">>
LightStroke == <<"#", "c", "b", "d", "5", "e", "0">>
DarkStroke == <<"#", "2", "d", "3", "7", "4", "8">>
BadgeFill == <<"#", "a", "0", "a", "e", "c", "0">>
OverlayFill ==
  <<"r", "g", "b", "a", "(", "2", "5", "5", ",", " ", "2", "5", "5",
    ",", " ", "2", "5", "5", ",", " ", "0", ".", "0", "5", ")">>
TintFill ==
  <<"r", "g", "b", "a", "(", "2", "3", "7", ",", " ", "2", "4", "2",
    ",", " ", "2", "4", "7", ",", " ", "0", ".", "2", ")">>
Transparent == <<"t", "r", "a", "n", "s", "p", "a", "r", "e", "n", "t">>
Background == <<"#", "e", "2", "e", "8", "f", "0">>
Arial == <<"A", "r", "i", "a", "l">>
TimesNewRoman == <<"T", "i", "m", "e", "s", " ", "N", "e", "w", " ", "R", "o", "m", "a", "n">>
CourierNew == <<"C", "o", "u", "r", "i", "e", "r", " ", "N", "e", "w">>

page_rect(page_width, page_height, page_y_offset) ==
  [type |-> "rect", left |-> 0, top |-> page_y_offset,
   width |-> page_width, height |-> page_height,
   fill |-> White, stroke |-> LightStroke, strokeWidth |-> 1,
   selectable |-> FALSE, role |-> "page"]

page_badge(page, page_width, page_y_offset) ==
  [type |-> "text", text |-> <<ToString(page.page_number)>>,
   left |-> page_width - Px(BadgeInset), top |-> page_y_offset + Px(BadgeTop),
   fontSize |-> Px(BadgeFontSize), fontWeight |-> "bold", fontStyle |-> "normal",
   fill |-> BadgeFill, fontFamily |-> Arial,
   selectable |-> FALSE, role |-> "badge"]

\* the objects of one table (lines 1096-1192)
table_objects(table, page_y_offset) ==
  IF table.rows = <<>> THEN <<>>
  ELSE
    LET bbox == table.bbox
        table_left   == Scale(bbox[1])
        table_top    == page_y_offset + Scale(bbox[2])
        table_width  == Scale(bbox[3] - bbox[1])
        table_height == Scale(bbox[4] - bbox[2])
        num_rows == table.num_rows
        num_cols == table.num_cols
        cell_height == IF num_rows > 0 THEN Frac(table_height, num_rows)
                       ELSE Frac(Px(DefaultCellHeight), 1)
        cell_width  == IF num_cols > 0 THEN Frac(table_width, num_cols)
                       ELSE Frac(Px(DefaultCellWidth), 1)
        overlay ==
          [type |-> "rect", left |-> table_left, top |-> table_top,
           width |-> table_width, height |-> table_height,
           fill |-> OverlayFill, stroke |-> DarkStroke,
           strokeWidth |-> 2, selectable |-> FALSE, role |-> "table_overlay"]
        h_line(i) ==
          LET y == FracPlus(FracTimes(i, cell_height), table_top)
          IN [type |-> "line", x1 |-> table_left, y1 |-> y,
              x2 |-> table_left + table_width, y2 |-> y,
              stroke |-> IF i \in {0, 1} THEN DarkStroke ELSE LightStroke,
              strokeWidth |-> IF i = 1 THEN 2 ELSE 1,
              selectable |-> FALSE, role |-> "row_line", index |-> i]
        v_line(j) ==
          LET x == FracPlus(FracTimes(j, cell_width), table_left)
          IN [type |-> "line", x1 |-> x, y1 |-> table_top,
              x2 |-> x, y2 |-> table_top + table_height,
              stroke |-> IF j \in {0, num_cols} THEN DarkStroke ELSE LightStroke,
              strokeWidth |-> 1,
              selectable |-> FALSE, role |-> "col_line", index |-> j]
        tint(col_idx) ==
          [type |-> "rect",
           left |-> FracPlus(FracTimes(col_idx, cell_width), table_left + Px(1)),
           top |-> table_top + Px(1),
           width |-> FracPlus(cell_width, 0 - Px(2)),
           height |-> FracPlus(cell_height, 0 - Px(2)),
           fill |-> TintFill, stroke |-> Transparent,
           strokeWidth |-> 0, selectable |-> FALSE, role |-> "header_tint",
           index |-> col_idx]
    IN    <<overlay>>
       \o [k \in 1..(num_rows + 1) |-> h_line(k - 1)]
       \o [k \in 1..(num_cols + 1) |-> v_line(k - 1)]
       \o [k \in 1..num_cols |-> tint(k - 1)]

\* font_family of lines 1234-1246
font_family(dominant_font) ==
  IF dominant_font = <<>> THEN Arial
  ELSE LET font_clean == FontBaseName(dominant_font)
       IN IF Contains(font_clean, <<"T", "i", "m", "e", "s">>)
          \/ Contains(font_clean, <<"S", "e", "r", "i", "f">>)
            THEN TimesNewRoman
          ELSE IF Contains(font_clean, <<"C", "o", "u", "r", "i", "e", "r">>)
               \/ Contains(font_clean, <<"M", "o", "n", "o">>)
            THEN CourierNew
          ELSE IF Contains(font_clean, <<"H", "e", "l", "v", "e", "t", "i", "c", "a">>)
               \/ Contains(font_clean, Arial)
            THEN Arial
          ELSE font_clean

\* the text object of one line, made also for a line of blank text
line_objects_keep_blank(line, page_y_offset) ==
  IF line.spans = <<>> THEN <<>>
  ELSE
    LET first_span == line.spans[1]
        full_line_text == Concat([i \in 1..Len(line.spans) |-> line.spans[i].text])
    IN << [type |-> "text", text |-> full_line_text,
           left |-> Scale(line.bbox[1]),
           top |-> page_y_offset + Scale(line.bbox[2]),
           fontSize |-> Scale(first_span.size),
           fontWeight |-> IF first_span.bold THEN "bold" ELSE "normal",
           fontStyle |-> IF first_span.italic THEN "italic" ELSE "normal",
           fill |-> first_span.color,
           fontFamily |-> font_family(first_span.font),
           selectable |-> TRUE, role |-> "line"] >>

\* the text object of one line (lines 1197-1265): none when the line has no
\* span or only blank text; the style is that of the first span
line_objects(line, page_y_offset) ==
  IF line.spans = <<>> THEN <<>>
  ELSE
    LET first_span == line.spans[1]
        full_line_text == Concat([i \in 1..Len(line.spans) |-> line.spans[i].text])
    IN IF strip(full_line_text) = <<>> THEN <<>>
       ELSE << [type |-> "text", text |-> full_line_text,
                left |-> Scale(line.bbox[1]),
                top |-> page_y_offset + Scale(line.bbox[2]),
                fontSize |-> Scale(first_span.size),
                fontWeight |-> IF first_span.bold THEN "bold" ELSE "normal",
                fontStyle |-> IF first_span.italic THEN "italic" ELSE "normal",
                fill |-> first_span.color,
                fontFamily |-> font_family(first_span.font),
                selectable |-> TRUE, role |-> "line"] >>

image_object(img, page_y_offset) ==
  [type |-> "image", src |-> img.data,
   left |-> Scale(img.bbox[1]), top |-> page_y_offset + Scale(img.bbox[2]),
   width |-> Scale(img.bbox[3] - img.bbox[1]),
   height |-> Scale(img.bbox[4] - img.bbox[2]),
   selectable |-> TRUE, role |-> "image"]

\* the objects of the page at index page_idx (0-based), lines 1053-1296
\* the objects of a page with the text lines appended before the tables
page_objects_text_first(page, page_idx) ==
  LET page_width  == Scale(page.width)
      page_height == Scale(page.height)
      page_y_offset == page_idx * (page_height + Px(PageSpacing))
      lines == Concat([i \in 1..Len(page.text_blocks) |-> page.text_blocks[i].lines])
  IN    <<page_rect(page_width, page_height, page_y_offset),
          page_badge(page, page_width, page_y_offset)>>
     \o Concat([i \in 1..Len(lines) |-> line_objects(lines[i], page_y_offset)])
     \o Concat([i \in 1..Len(page.tables) |->
                  table_objects(page.tables[i], page_y_offset)])
     \o [i \in 1..Len(page.images) |-> image_object(page.images[i], page_y_offset)]

page_objects(page, page_idx) ==
  LET page_width  == Scale(page.width)
      page_height == Scale(page.height)
      page_y_offset == page_idx * (page_height + Px(PageSpacing))
      lines == Concat([i \in 1..Len(page.text_blocks) |-> page.text_blocks[i].lines])
  IN    <<page_rect(page_width, page_height, page_y_offset),
          page_badge(page, page_width, page_y_offset)>>
     \o Concat([i \in 1..Len(page.tables) |->
                  table_objects(page.tables[i], page_y_offset)])
     \o Concat([i \in 1..Len(lines) |-> line_objects(lines[i], page_y_offset)])
     \o [i \in 1..Len(page.images) |-> image_object(page.images[i], page_y_offset)]

convert_to_fabric_objects(pdf_data) ==
  LET pages == pdf_data.pages
      num_pages == Len(pages)
      page_height_scaled == Scale(pages[1].height)
      canvas_height ==
        IF num_pages > 0
          THEN (num_pages - 1) * (page_height_scaled + Px(PageSpacing))
               + page_height_scaled + Px(CanvasMargin)
          ELSE Px(EmptyCanvasHeight)
      pdf_width == SetMax({pages[i].width : i \in 1..num_pages})
      \* int(pdf_width * 1.5), in pixels
      canvas_width ==
        IF num_pages > 0
          THEN Max2(Scale(pdf_width) \div 2, MinCanvasWidth)
          ELSE MinCanvasWidth
  IN [objects |-> Concat([i \in 1..num_pages |-> page_objects(pages[i], i - 1)]),
      background |-> Background,
      canvasHeight |-> canvas_height,
      canvasWidth |-> canvas_width]

-----------------------------------------------------------------------------
(* The extractor as a state machine.  One action per call or loop          *)
(* iteration; the converters are static functions a caller applies to the  *)
(* structure extract_full_document returned.                               *)

MaxCalls == 2

\* AdvancedPDFExtractor(pdf_path)
Construct ==
  /\ pc = "new"
  /\ \E len_ok \in (IF file.kind = "encrypted" THEN BOOLEAN ELSE {TRUE}) :
       LET e == init_error(file, len_ok)
       IN /\ raised' = e
          /\ pc' = IF e = NoError THEN "idle" ELSE "failed"
  /\ stats' = InitialStats
  /\ UNCHANGED <<file, page_num, pages_data, result, calls, delta, fabric>>
  /\ UNCHANGED <<gen_vars, fn_vars, view_vars>>

\* extract_full_document, up to the page loop (lines 104-110); the caller
\* no longer holds what an earlier call returned
StartExtract ==
  /\ pc = "idle"
  /\ calls < MaxCalls
  /\ pc' = "loop"
  /\ calls' = calls + 1
  /\ page_num' = 0
  /\ pages_data' = <<>>
  /\ result' = None
  /\ delta' = None
  /\ fabric' = None
  /\ raised' = NoError
  /\ UNCHANGED <<file, stats>>
  /\ UNCHANGED <<gen_vars, fn_vars, view_vars>>

\* ProcessPage without the handler of lines 242-256: a page that cannot be
\* loaded ends the loop and leaves no entry
ProcessPage_abort ==
  /\ pc = "loop"
  /\ page_num < Len(file.pages)
  /\ IF page_loads(file, page_num + 1)
       THEN /\ pages_data' = Append(pages_data,
                 page_entry(file.pages[page_num + 1], page_num + 1))
            /\ page_num' = page_num + 1
       ELSE /\ pages_data' = pages_data
            /\ page_num' = Len(file.pages)
  /\ stats' = stats_after(stats, file, page_num + 1)
  /\ UNCHANGED <<file, pc, raised, result, calls, delta, fabric>>
  /\ UNCHANGED <<gen_vars, fn_vars, view_vars>>

\* one iteration of the page loop (lines 111-256)
ProcessPage ==
  /\ pc = "loop"
  /\ page_num < Len(file.pages)
  /\ pages_data' = Append(pages_data,
         IF page_loads(file, page_num + 1)
           THEN page_entry(file.pages[page_num + 1], page_num + 1)
           ELSE empty_page(page_num + 1, LoadError))
  /\ stats' = stats_after(stats, file, page_num + 1)
  /\ page_num' = page_num + 1
  /\ UNCHANGED <<file, pc, raised, result, calls, delta, fabric>>
  /\ UNCHANGED <<gen_vars, fn_vars, view_vars>>

\* extract_full_document after the loop (lines 258-286).  The returned
\* 'stats' is self.stats itself, the variable stats.
FinishExtract ==
  /\ pc = "loop"
  /\ page_num = Len(file.pages)
  /\ stats' = IF file.metadata = "raise"
                THEN [stats EXCEPT !.warnings =
                        Append(@, [page |-> 0, text |-> MetadataWarning])]
                ELSE stats
  /\ result' = Some([pages |-> pages_data, total_pages |-> Len(file.pages)])
  /\ pc' = "idle"
  /\ UNCHANGED <<file, raised, page_num, pages_data, calls, delta, fabric>>
  /\ UNCHANGED <<gen_vars, fn_vars, view_vars>>

\* PDFToEditableConverter.convert_to_quill_delta(result)
ConvertQuill ==
  /\ pc = "idle"
  /\ result # None
  /\ delta = None
  /\ delta' = Some(convert_to_quill_delta(result[1]))
  /\ UNCHANGED <<file, pc, raised, stats, page_num, pages_data, result, calls, fabric>>
  /\ UNCHANGED <<gen_vars, fn_vars, view_vars>>

\* PDFToEditableConverter.convert_to_fabric_objects(result)
ConvertFabric ==
  /\ pc = "idle"
  /\ result # None
  /\ fabric = None
  /\ fabric' = Some(convert_to_fabric_objects(result[1]))
  /\ UNCHANGED <<file, pc, raised, stats, page_num, pages_data, result, calls, delta>>
  /\ UNCHANGED <<gen_vars, fn_vars, view_vars>>

Next ==
  \/ Construct
  \/ StartExtract
  \/ ProcessPage
  \/ FinishExtract
  \/ ConvertQuill
  \/ ConvertFabric

\* the state before AdvancedPDFExtractor(pdf_path), for the file f
InitWith(f) ==
  /\ file = f
  /\ pc = "new"
  /\ raised = NoError
  /\ stats = InitialStats
  /\ page_num = 0
  /\ pages_data = <<>>
  /\ result = None
  /\ calls = 0
  /\ delta = None
  /\ fabric = None
  /\ request = None
  /\ story = <<>>
  /\ generated = "none"
  /\ args = None
  /\ answer = None
  /\ db = NoRows
  /\ clock = 0
  /\ http = None
  /\ last_save = None

-----------------------------------------------------------------------------
(* Documents.  Builders of what PyMuPDF reports for a page.                *)

Path == "doc.pdf"

Box(x, y, w, h) == <<x, y, x + w, y + h>>

\* a raw span of get_text("dict")
RawSpan(text, bbox, size, font, flags, color) ==
  [text |-> text, size |-> size, font |-> font, flags |-> flags,
   color |-> color, bbox |-> bbox]

PlainSpan(text, bbox) == RawSpan(text, bbox, 12, <<>>, 0, 0)

\* a text block of one line
RawBlock(spans, bbox) ==
  [type |-> 0, bbox |-> bbox, lines |-> << [bbox |-> bbox, spans |-> spans] >>]

RawPage(blocks, image_list, drawings) ==
  [load |-> TRUE, get_text |-> "ok", blocks |-> blocks,
   get_images |-> "ok", image_list |-> image_list,
   get_drawings |-> "ok", drawings |-> drawings,
   width |-> DefaultPageWidth, height |-> DefaultPageHeight]

RawImage(xref, bbox) ==
  [xref |-> xref, extract |-> "ok", ext |-> "png",
   size |-> <<bbox[3] - bbox[1], bbox[4] - bbox[2]>>, rects |-> <<bbox>>]

Rect(x, y, w, h) == [type |-> "re", c |-> <<x, y, w, h>>, nonnum |-> {}]

File(kind, pages) ==
  [kind |-> kind, path |-> Path, pages |-> pages, metadata |-> "ok"]

ValidFile(pages) == File("valid", pages)

SeqsUpTo(S, n) == UNION {[1..k -> S] : k \in 0..n}

-----------------------------------------------------------------------------
(* Spec: files of every kind; documents of up to MaxPages pages, each page *)
(* with one free text block, one image and one ruled cell holding text,    *)
(* and any of its PyMuPDF calls failing.                                   *)

MaxPages == 2

BasePage ==
  RawPage(<< RawBlock(<<PlainSpan(<<"T">>, Box(50, 50, 20, 10))>>, Box(50, 50, 20, 10)),
             RawBlock(<<PlainSpan(<<"C">>, Box(110, 210, 20, 10))>>, Box(110, 210, 20, 10)) >>,
          << RawImage("img1", Box(50, 400, 100, 80)) >>,
          << <<Rect(100, 200, 100, 50)>> >>)

PageVariants ==
  {[BasePage EXCEPT !.get_text = t, !.get_images = i, !.get_drawings = d] :
     t \in {"ok", "raise"}, i \in {"ok", "raise"}, d \in {"ok", "raise"}}
  \cup {[BasePage EXCEPT !.load = FALSE]}

Files ==
     {[File("valid", pages) EXCEPT !.metadata = m] :
        pages \in SeqsUpTo(PageVariants, MaxPages), m \in {"ok", "raise"}}
  \cup {File("encrypted", pages) :
          pages \in SeqsUpTo({BasePage}, MaxPages) \ {<<>>}}
  \cup {File(k, <<>>) : k \in {"missing", "removed", "corrupt", "unreadable"}}

Init == \E f \in Files : InitWith(f)

Spec == Init /\ [][Next]_vars

-----------------------------------------------------------------------------
(* Properties checked under Spec                                           *)

ErrorsFor(i) ==
  Cardinality({k \in 1..Len(stats.errors) : stats.errors[k].page = i})

WarningsFor(i, text) ==
  Cardinality({k \in 1..Len(stats.warnings) :
                 stats.warnings[k] = [page |-> i, text |-> text]})

\* the file holds a document whose page i cannot be loaded
LoadFails(i) == file.kind = "encrypted" \/ ~file.pages[i].load

\* C1: a call on a document of N pages returns N page entries numbered 1..N
\* in order and total_pages = N, without raising; a page whose processing
\* raised has empty text_blocks, images, tables and elements and one more
\* message in stats.errors per call, and the pages after it are processed
\* (no error entry; their image is extracted when get_images succeeds).
C1_EveryPageRecorded ==
  result # None =>
    LET r == result[1]
        N == Len(file.pages)
    IN /\ raised = NoError
       /\ Len(r.pages) = N
       /\ r.total_pages = N
       /\ \A i \in 1..N :
            /\ r.pages[i].page_number = i
            /\ LoadFails(i) =>
                 /\ r.pages[i].text_blocks = <<>>
                 /\ r.pages[i].images = <<>>
                 /\ r.pages[i].tables = <<>>
                 /\ r.pages[i].elements = <<>>
                 /\ ErrorsFor(i) = calls
            /\ ~LoadFails(i) =>
                 /\ "error" \notin DOMAIN r.pages[i]
                 /\ ErrorsFor(i) = 0
                 /\ file.pages[i].get_images = "ok" => Len(r.pages[i].images) = 1

\* a returned structure whose first page raised and whose second did not
C1_Witness ==
  /\ result # None
  /\ Len(file.pages) = 2
  /\ LoadFails(1)
  /\ ~LoadFails(2)
  /\ result[1].pages[2].text_blocks # <<>>

\* C2: constructing the extractor on a path that does not exist or on a file
\* that cannot be opened as a PDF (corrupt, truncated, password-protected)
\* raises PDFExtractionError and yields no extractor, and the error for a
\* missing file differs from the error for a corrupt file.
C2_UnusableFileRaises ==
  /\ (pc # "new" /\ file.kind \in {"missing", "removed", "corrupt",
                                    "unreadable", "encrypted"})
       => (pc = "failed" /\ raised.type = "PDFExtractionError")
  /\ (pc = "failed" /\ file.kind = "missing")
       => raised # init_error(File("corrupt", <<>>), TRUE)

\* C3: when one sub-step of a page (text, images or tables) fails and the
\* page itself loads, the call returns, the page is in pages with that
\* sub-step's list empty, exactly one warning for that sub-step and page is
\* in stats.warnings after the first call, no error is recorded for the
\* page, and the images are present when only the text sub-step failed.
C3_SubStepFailureWarns ==
  (result # None /\ calls = 1) =>
    \A i \in 1..Len(file.pages) :
      ~LoadFails(i) =>
        LET page == file.pages[i]
            entry == result[1].pages[i]
        IN /\ raised = NoError
           /\ ErrorsFor(i) = 0
           /\ page.get_text = "raise" =>
                (entry.text_blocks = <<>> /\ WarningsFor(i, TextWarning) = 1)
           /\ page.get_images = "raise" =>
                (entry.images = <<>> /\ WarningsFor(i, ImagesWarning) = 1)
           /\ page.get_drawings = "raise" =>
                (entry.tables = <<>> /\ WarningsFor(i, TablesWarning) = 1)
           /\ (page.get_text = "raise" /\ page.get_images = "ok") =>
                entry.images # <<>>

-----------------------------------------------------------------------------
(* SpecLayout: readable pages whose elements differ in position.  A page   *)
(* has a ruled cell <<100, 75, 200, 175>> (or no ruling) holding the text  *)
(* C, an image at x = 300 and a text block T of 20 x 10 points placed on   *)
(* both sides of each edge of the 5-point margin around the cell; a page   *)
(* of TiePages has a second free text block U extracted before T.          *)

CellRect == Rect(100, 75, 100, 100)
CellText == RawBlock(<<PlainSpan(<<"C">>, Box(120, 120, 20, 10))>>, Box(120, 120, 20, 10))

TextBlockAt(text, x, y) == RawBlock(<<PlainSpan(text, Box(x, y, 20, 10))>>, Box(x, y, 20, 10))

LayoutXs == {94, 95, 185, 186, 300}
LayoutYs == {50, 69, 70, 75, 100, 170, 171}
ImageYs == {50, 75, 100}

LayoutPage(tx, ty, iy, ruled) ==
  RawPage(<< TextBlockAt(<<"T">>, tx, ty), CellText >>,
          << RawImage("img1", Box(300, iy, 100, 80)) >>,
          IF ruled THEN << <<CellRect>> >> ELSE <<>>)

LayoutPages ==
  {LayoutPage(tx, ty, iy, ruled) :
     tx \in LayoutXs, ty \in LayoutYs, iy \in ImageYs, ruled \in BOOLEAN}

TiePages ==
  {RawPage(<< TextBlockAt(<<"U">>, 300, 75), TextBlockAt(<<"T">>, 350, ty), CellText >>,
           << RawImage("img1", Box(300, iy, 100, 80)) >>,
           << <<CellRect>> >>) : ty \in ImageYs, iy \in ImageYs}

\* the page of the example: text at y = 100, image at y = 50, table at y = 75
ExamplePage == LayoutPage(300, 100, 50, TRUE)

LayoutFiles ==
     {ValidFile(<<p>>) : p \in LayoutPages \cup TiePages}
  \cup {ValidFile(<<p, q>>) :
          p, q \in {ExamplePage, LayoutPage(95, 70, 75, TRUE),
                    LayoutPage(300, 75, 75, TRUE)}}

InitLayout == \E f \in LayoutFiles : InitWith(f)

SpecLayout == InitLayout /\ [][Next]_vars

-----------------------------------------------------------------------------
(* Properties checked under SpecLayout                                     *)

IndexIn(seq, v) == CHOOSE k \in 1..Len(seq) : seq[k] = v

\* the place of an element in the order of appending: the text blocks, then
\* the images, then the tables of the page entry
ElementRank(entry, el) ==
  CASE el.type = "text"  -> IndexIn(entry.text_blocks, el.data)
    [] el.type = "image" -> Len(entry.text_blocks) + IndexIn(entry.images, el.data)
    [] el.type = "table" -> Len(entry.text_blocks) + Len(entry.images)
                              + IndexIn(entry.tables, el.data)

\* a comes before b in reading order: higher on the page, or as high and
\* appended earlier
Precedes(entry, a, b) ==
  \/ a.y < b.y
  \/ a.y = b.y /\ ElementRank(entry, a) < ElementRank(entry, b)

ElementTypes(entry) == [k \in 1..Len(entry.elements) |-> entry.elements[k].type]

\* C4: in every returned page the elements are in non-decreasing order of
\* their top y (the y0 of their bbox), elements of equal y being in the order
\* text blocks, images, tables, each in extraction order; the page with a
\* text block at y = 100, an image at y = 50 and a table at y = 75 has the
\* elements image, table, text.
C4_ElementsInReadingOrder ==
  result # None =>
    \A n \in 1..Len(result[1].pages) :
      LET entry == result[1].pages[n]
          els == entry.elements
      IN /\ \A k \in 1..Len(els) : els[k].y = els[k].data.bbox[2]
         /\ \A i, j \in 1..Len(els) : i < j => Precedes(entry, els[i], els[j])
         /\ file.pages[n] = ExamplePage
              => ElementTypes(entry) = <<"image", "table", "text">>

\* the example page was extracted, and a page where a text block, the image
\* and the table share y = 75
C4_Witness ==
  /\ result # None
  /\ file.pages = <<ExamplePage, LayoutPage(300, 75, 75, TRUE)>>
  /\ ElementTypes(result[1].pages[1]) = <<"image", "table", "text">>
  /\ ElementTypes(result[1].pages[2]) = <<"text", "image", "table">>

\* b lies in t enlarged by 5 points on each of its four sides
WithinMargin(b, t) ==
  /\ b[1] >= t[1] - 5
  /\ b[2] >= t[2] - 5
  /\ b[3] <= t[3] + 5
  /\ b[4] <= t[4] + 5

Occurrences(entry, type, data) ==
  Cardinality({k \in 1..Len(entry.elements) :
                 entry.elements[k].type = type /\ entry.elements[k].data = data})

\* C5: in every returned page a text block is an element exactly when its
\* bbox does not lie, with a margin of 5 points on each side, in the bbox of
\* a table of the page; every image and every table is an element once; and
\* the elements kept are in reading order.
C5_TextInsideTableDropped ==
  result # None =>
    \A n \in 1..Len(result[1].pages) :
      LET entry == result[1].pages[n]
          els == entry.elements
          covered(tb) == \E t \in 1..Len(entry.tables) :
                           WithinMargin(tb.bbox, entry.tables[t].bbox)
      IN /\ \A k \in 1..Len(entry.text_blocks) :
              Occurrences(entry, "text", entry.text_blocks[k])
                = IF covered(entry.text_blocks[k]) THEN 0 ELSE 1
         /\ \A k \in 1..Len(entry.images) :
              Occurrences(entry, "image", entry.images[k]) = 1
         /\ \A k \in 1..Len(entry.tables) :
              Occurrences(entry, "table", entry.tables[k]) = 1
         /\ \A k \in 1..Len(els) : els[k].type \in {"text", "image", "table"}
         /\ \A i, j \in 1..Len(els) : i < j => Precedes(entry, els[i], els[j])

\* a text block outside the table is kept on page 1; on page 2 the text
\* block T lies 5 points left of and above the table and is dropped with
\* the text of the cell
C5_Witness ==
  /\ result # None
  /\ file.pages = <<ExamplePage, LayoutPage(95, 70, 75, TRUE)>>
  /\ Len(result[1].pages[1].tables) = 1
  /\ Len(result[1].pages[2].tables) = 1
  /\ Len(result[1].pages[2].text_blocks) = 2
  /\ ElementTypes(result[1].pages[1]) = <<"image", "table", "text">>
  /\ ElementTypes(result[1].pages[2]) = <<"image", "table">>

\* the index of the first op at or after lo whose insert is ins, 0 if none
OpIndex(ops, lo, ins) ==
  LET found == {k \in lo..Len(ops) : ops[k].insert = ins}
  IN IF found = {} THEN 0 ELSE SetMin(found)

\* the insert of the first op an element gives rise to: the text of its
\* first span, the embedded image, the header of the table
FirstInsert(el) ==
  CASE el.type = "text"  -> el.data.lines[1].spans[1].text
    [] el.type = "image" -> <<"{image}">> \o el.data.data
    [] el.type = "table" -> TableHeaderText

\* the index of the header op of page n
PageStart(ops, n) == OpIndex(ops, 1, PageWord \o <<ToString(n)>>)

\* C9: in the ops of convert_to_quill_delta the pages come in document
\* order, and within a page the ops of two elements of the page's elements
\* sequence come in the order the elements have in that sequence.
C9_OpsInReadingOrder ==
  (result # None /\ delta # None) =>
    LET ops == delta[1].ops
        pages == result[1].pages
    IN \A n \in 1..Len(pages) :
         LET start == PageStart(ops, n)
             els == pages[n].elements
             at(k) == OpIndex(ops, start, FirstInsert(els[k]))
         IN /\ start > 0
            /\ n > 1 => PageStart(ops, n - 1) < start
            /\ \A i, j \in 1..Len(els) :
                 i < j => (at(i) > 0 /\ at(i) < at(j))

-----------------------------------------------------------------------------
(* SpecMerge: readable pages on which both detection strategies can find   *)
(* a table.  The ruled cell <<100, 100, 200, 200>> holds the text C; four  *)
(* words A1 B1 / A2 B2 of 20 x 10 points are aligned in two lines and two  *)
(* columns, their box <<ax, ay, ax + 60, ay + 30>> overlapping the cell by *)
(* nothing, by less than half of its area, by exactly half, by more than   *)
(* half, or lying within it.                                               *)

Word(text, x, y) == PlainSpan(text, Box(x, y, 20, 10))

\* one text block of two lines of two words
AlignedBlock(ax, ay, bx2) ==
  [type |-> 0, bbox |-> <<ax, ay, Max2(ax + 60, bx2 + 20), ay + 30>>,
   lines |-> << [bbox |-> <<ax, ay, ax + 60, ay + 10>>,
                 spans |-> << Word(<<"A", "1">>, ax, ay),
                              Word(<<"B", "1">>, ax + 40, ay) >>],
                [bbox |-> <<ax, ay + 20, Max2(ax + 60, bx2 + 20), ay + 30>>,
                 spans |-> << Word(<<"A", "2">>, ax, ay + 20),
                              Word(<<"B", "2">>, bx2, ay + 20) >>] >>]

MergeCell == RawBlock(<<PlainSpan(<<"C">>, Box(110, 180, 20, 10))>>, Box(110, 180, 20, 10))

MergeXs == {40, 69, 70, 71, 120, 300}
MergeYs == {84, 85, 120}

MergePage(ax, ay, ruled) ==
  RawPage(<< AlignedBlock(ax, ay, ax + 40), MergeCell >>, <<>>,
          IF ruled THEN << <<Rect(100, 100, 100, 100)>> >> ELSE <<>>)

\* B2 stands in a third column: both lines have an empty cell
RaggedPage == RawPage(<< AlignedBlock(300, 120, 380), MergeCell >>, <<>>, <<>>)

\* a block whose line is two spaces, and a ruled cell holding a text
BlankLinePage ==
  RawPage(<< RawBlock(<<PlainSpan(<<" ">>, Box(40, 40, 5, 10)),
                        PlainSpan(<<" ">>, Box(45, 40, 5, 10))>>, Box(40, 40, 10, 10)),
             MergeCell >>,
          <<>>, << <<Rect(100, 100, 100, 100)>> >>)

\* no aligned words
RuledOnlyPage == RawPage(<< MergeCell >>, <<>>, << <<Rect(100, 100, 100, 100)>> >>)

MergePages ==
  {MergePage(ax, ay, ruled) : ax \in MergeXs, ay \in MergeYs, ruled \in BOOLEAN}
    \cup {RaggedPage, RuledOnlyPage, BlankLinePage}

MergeFiles ==
     {ValidFile(<<p>>) : p \in MergePages}
  \cup {ValidFile(<<MergePage(70, 120, TRUE), MergePage(69, 120, TRUE)>>)}

InitMerge == \E f \in MergeFiles : InitWith(f)

SpecMerge == InitMerge /\ [][Next]_vars

-----------------------------------------------------------------------------
(* Properties checked under SpecMerge                                      *)

BoxArea(b) == (b[3] - b[1]) * (b[4] - b[2])

\* the area two boxes share
SharedArea(a, b) ==
    Max2(0, Min2(a[3], b[3]) - Max2(a[1], b[1]))
  * Max2(0, Min2(a[4], b[4]) - Max2(a[2], b[2]))

\* the shared area is at least half the area of the smaller box
HalfShared(a, b) ==
  2 * SharedArea(a, b) >= Min2(BoxArea(a), BoxArea(b))

OfType(tables, type) == SelectSeq(tables, LAMBDA t : t.type = type)

\* C6: the tables of a returned page are the tables found from ruled lines
\* followed by the tables found from text alignment that are kept; a table
\* found from text alignment is left out exactly when the area it shares
\* with a table kept before it is at least half the area of the smaller of
\* the two boxes.
C6_OverlappingTableLeftOut ==
  result # None =>
    \A n \in 1..Len(result[1].pages) :
      LET tables == result[1].pages[n].tables
          grid == OfType(tables, "grid")
          aligned == OfType(tables, "aligned")
          found == _detect_tables_from_text_alignment(file.pages[n])
      IN /\ tables = grid \o aligned
         /\ Range(aligned) \subseteq Range(found)
         /\ Len(aligned) <= Len(found)
         /\ \A k \in 1..Len(found) :
              (found[k] \notin Range(aligned))
                <=> \E g \in 1..Len(grid) : HalfShared(found[k].bbox, grid[g].bbox)

\* on page 1 the words share exactly half of their box with the ruled table
\* and their table is left out; on page 2 they share one point less in
\* width and both tables are kept
C6_Witness ==
  /\ result # None
  /\ file.pages = <<MergePage(70, 120, TRUE), MergePage(69, 120, TRUE)>>
  /\ 2 * SharedArea(<<70, 120, 130, 150>>, <<100, 100, 200, 200>>)
       = BoxArea(<<70, 120, 130, 150>>)
  /\ Len(_detect_tables_from_text_alignment(file.pages[1])) = 1
  /\ Len(result[1].pages[1].tables) = 1
  /\ result[1].pages[1].tables[1].type = "grid"
  /\ Len(result[1].pages[2].tables) = 2
  /\ result[1].pages[2].tables[2].bbox = <<69, 120, 129, 150>>

\* the text of the cells of a row with " | " between them
RowText(row) == Join(row, <<" ", "|", " ">>)

\* the rows of all the tables of the returned pages, in order
AllTables == Concat([n \in 1..Len(result[1].pages) |-> result[1].pages[n].tables])

HeaderOps(ops) == {k \in 1..Len(ops) : ops[k].insert = TableHeaderText}

IsBoldHeader(op) ==
  /\ op.insert = TableHeaderText
  /\ "attributes" \in DOMAIN op
  /\ "bold" \in DOMAIN op.attributes
  /\ op.attributes["bold"] = TRUE

\* the ops of the t-th table start at the t-th header op; ending(row) is the
\* text the op of a row must have
TableOpsAre(ops, ending(_)) ==
  LET headers == SortedSet(HeaderOps(ops))
  IN /\ Len(headers) = Len(AllTables)
     /\ \A t \in 1..Len(AllTables) :
          LET h == headers[t]
              rows == AllTables[t].rows
          IN /\ IsBoldHeader(ops[h])
             /\ h + Len(rows) <= Len(ops)
             /\ \A r \in 1..Len(rows) :
                  /\ ops[h + r].insert = ending(rows[r])
                  /\ "attributes" \notin DOMAIN ops[h + r]

\* C10 as stated: each table gives one bold header op followed by one op per
\* row, in order, whose text equals exactly the cells of the row joined with
\* " | ".
C10_RowOpIsJoinedCells ==
  (result # None /\ delta # None) =>
    TableOpsAre(delta[1].ops, LAMBDA row : RowText(row))

\* C10 amended: each table gives one bold header op followed by one op per
\* row, in order, whose text is the cells of the row joined with " | " and
\* ended by a newline; the rows [A1, B1] and [A2, B2] give "A1 | B1\n" and
\* "A2 | B2\n".
C10_RowOpIsJoinedCellsAndNewline ==
  (result # None /\ delta # None) =>
    /\ TableOpsAre(delta[1].ops, LAMBDA row : RowText(row) \o <<"\n">>)
    /\ file.pages = <<MergePage(300, 120, TRUE)>> =>
         \E k \in 1..Len(delta[1].ops) :
           /\ delta[1].ops[k].insert = <<"A", "1", " ", "|", " ", "B", "1", "\n">>
           /\ delta[1].ops[k + 1].insert = <<"A", "2", " ", "|", " ", "B", "2", "\n">>

\* the page with the ruled table and the table of rows [A1, B1], [A2, B2]
\* was converted: two header ops
C10_Witness ==
  /\ result # None
  /\ delta # None
  /\ file.pages = <<MergePage(300, 120, TRUE)>>
  /\ result[1].pages[1].tables[2].rows
       = << << <<"A", "1">>, <<"B", "1">> >>, << <<"A", "2">>, <<"B", "2">> >> >>
  /\ Cardinality(HeaderOps(delta[1].ops)) = 2

-----------------------------------------------------------------------------
(* SpecStyle: readable pages of one text line of two spans.  The first     *)
(* span "a" takes every combination of font name, style flags, packed      *)
(* colour and size (0: no size); the second span "b" is plain, or bold and *)
(* red, or has no text.                                                    *)

Helvetica == <<"H", "e", "l", "v", "e", "t", "i", "c", "a">>
SubsetTimesBold == <<"A", "B", "C", "+", "T", "i", "m", "e", "s", "-", "B", "o", "l", "d">>
CourierOblique == <<"C", "o", "u", "r", "i", "e", "r", "-", "O", "b", "l", "i", "q", "u", "e">>
SubsetArial == <<"X", "Y", "+", "A", "r", "i", "a", "l", "-", "M", "T">>

StyleFonts == {<<>>, Helvetica, SubsetArial, SubsetTimesBold, CourierOblique}
\* bit 1 is italic, bit 4 is bold
StyleFlags == {0, 2, 16}
\* black, almost black, red
StyleColors == {0, 1, 16711680}
StyleSizes == {0, 12}

FirstSpans ==
  {RawSpan(<<"a">>, Box(50, 50, 20, 10), size, font, flags, color) :
     size \in StyleSizes, font \in StyleFonts, flags \in StyleFlags,
     color \in StyleColors}
  \cup {RawSpan(<<>>, Box(50, 50, 20, 10), 12, SubsetTimesBold, 0, 16711680)}

SecondSpans ==
  {RawSpan(<<"b">>, Box(70, 50, 20, 10), 0, <<>>, 0, 0),
   RawSpan(<<"b">>, Box(70, 50, 20, 10), 12, SubsetTimesBold, 0, 16711680),
   RawSpan(<<>>, Box(70, 50, 20, 10), 0, <<>>, 0, 0)}

StylePage(s1, s2) ==
  RawPage(<< RawBlock(<<s1, s2>>, Box(50, 50, 40, 10)) >>, <<>>, <<>>)

StyleFiles ==
  {ValidFile(<<StylePage(s1, s2)>>) : s1 \in FirstSpans, s2 \in SecondSpans}

InitStyle == \E f \in StyleFiles : InitWith(f)

SpecStyle == InitStyle /\ [][Next]_vars

-----------------------------------------------------------------------------
(* Properties checked under SpecStyle                                      *)

\* the extracted spans of the returned pages that have a text
TextSpans ==
  LET blocks == Concat([n \in 1..Len(result[1].pages) |-> result[1].pages[n].text_blocks])
      lines == Concat([b \in 1..Len(blocks) |-> blocks[b].lines])
      spans == Concat([l \in 1..Len(lines) |-> lines[l].spans])
  IN {spans[k] : k \in 1..Len(spans)} \ {sp \in Range(spans) : sp.text = <<>>}

\* the ops carrying the text of a span (the texts of the spans of a
\* document of StyleFiles differ from each other and from every other op)
OpsOf(sp) == {op \in Range(delta[1].ops) : op.insert = sp.text}

\* black, upright, regular weight, no size
Unstyled(sp) == sp.color = Black /\ ~sp.bold /\ ~sp.italic /\ sp.size = 0

OpStyledAs(op, sp) ==
  LET has(key) == "attributes" \in DOMAIN op /\ key \in DOMAIN op.attributes
  IN /\ has("bold") => sp.bold
     /\ has("italic") => sp.italic
     /\ has("color") => op.attributes["color"] = sp.color

\* the positioned text objects made of text lines
LineObjects == {o \in Range(fabric[1].objects) : o.role = "line"}

\* the extracted lines of the returned pages
TextLines ==
  LET blocks == Concat([n \in 1..Len(result[1].pages) |-> result[1].pages[n].text_blocks])
  IN Range(Concat([b \in 1..Len(blocks) |-> blocks[b].lines]))

LineText(line) == Concat([i \in 1..Len(line.spans) |-> line.spans[i].text])

\* a text object is bold, italic or of a colour other than black only if
\* the span is bold, italic or of that colour
ObjectStyledAs(o, sp) ==
  /\ o.fontWeight = "bold" => sp.bold
  /\ o.fontStyle = "italic" => sp.italic
  /\ o.fill # Black => o.fill = sp.color

\* the ops of the spans are styled as their spans
QuillStyleFromSpan ==
  \A sp \in TextSpans : \A op \in OpsOf(sp) : OpStyledAs(op, sp)

\* C8: the op of a span is bold, italic or coloured only if the span is, and
\* the text object holding the text of a span is bold, italic or of a colour
\* other than black only if that span is.
C8_NoInventedStyle ==
  (result # None /\ delta # None /\ fabric # None) =>
    /\ QuillStyleFromSpan
    /\ \A line \in TextLines : \A o \in LineObjects :
         o.text = LineText(line) =>
           \A i \in 1..Len(line.spans) :
             line.spans[i].text # <<>> => ObjectStyledAs(o, line.spans[i])

-----------------------------------------------------------------------------
(* Properties of the positioned objects, checked under SpecMerge           *)

TableRoles == {"table_overlay", "row_line", "col_line", "header_tint"}

\* the top of an object, in whole half pixels
ObjectTop(o) ==
  CASE o.role = "row_line" -> o.y1.num \div o.y1.den
    [] o.role = "col_line" -> o.y1
    [] OTHER -> o.top

\* the top of page k (1-based) on the canvas
PageTop(k) ==
  (k - 1) * (Scale(result[1].pages[k].height) + Px(PageSpacing))

\* the page on whose area an object lies
PageOfObject(o) ==
  CHOOSE k \in 1..Len(result[1].pages) :
    /\ PageTop(k) <= ObjectTop(o)
    /\ ObjectTop(o) <= PageTop(k) + Scale(result[1].pages[k].height)

\* C11: in the objects of convert_to_fabric_objects every object of the
\* tables of a page (overlay rect, separator lines, header tint rects) comes
\* before every text object of a text line of that page, and every object
\* of a page comes before every object of the next pages.
C11_TablesBeforeTextPagesInOrder ==
  (result # None /\ fabric # None) =>
    LET objects == fabric[1].objects
    IN \A i, j \in 1..Len(objects) :
         /\ PageOfObject(objects[i]) < PageOfObject(objects[j]) => i < j
         /\ ( /\ PageOfObject(objects[i]) = PageOfObject(objects[j])
              /\ objects[i].role \in TableRoles
              /\ objects[j].role = "line" ) => i < j

\* two pages, each with a ruled table and text lines, were converted
C11_Witness ==
  /\ result # None
  /\ fabric # None
  /\ Len(result[1].pages) = 2
  /\ \A k \in 1..2 :
       /\ \E o \in Range(fabric[1].objects) :
            o.role = "table_overlay" /\ PageOfObject(o) = k
       /\ \E o \in Range(fabric[1].objects) :
            o.role = "line" /\ PageOfObject(o) = k

\* the text objects, in order, reduced to what they show and where
ShownTexts ==
  LET texts == SelectSeq(fabric[1].objects, LAMBDA o : o.type = "text")
  IN [i \in 1..Len(texts) |->
        IF texts[i].selectable
          THEN [text |-> texts[i].text, left |-> texts[i].left, top |-> texts[i].top]
          ELSE [badge |-> texts[i].text]]

\* the lines of extracted page k, in block order
LinesOfPage(k) ==
  LET blocks == result[1].pages[k].text_blocks
  IN Concat([b \in 1..Len(blocks) |-> blocks[b].lines])

\* the badge of page k, then one text for each of its lines that is not
\* blank, at 1.5 times the line's top left corner, below the pages before
ExpectedTexts(k) ==
  LET lines == SelectSeq(LinesOfPage(k), LAMBDA line : strip(LineText(line)) # <<>>)
      above == (k - 1) * (3 * result[1].pages[k].height + 2 * PageSpacing)
  IN <<[badge |-> <<ToString(result[1].pages[k].page_number)>>]>>
     \o [i \in 1..Len(lines) |->
           [text |-> LineText(lines[i]),
            left |-> 3 * lines[i].bbox[1],
            top |-> above + 3 * lines[i].bbox[2]]]

\* C17: the text objects of convert_to_fabric_objects are, page after page,
\* the badge of the page and one object for each text line of the page whose
\* spans' texts, concatenated in order, are not blank; the object shows that
\* text at the line's top left corner scaled by 1.5, moved down by the page's
\* offset; there is no other text object, so none for a cell of a table
C17_OneTextObjectPerLine ==
  (result # None /\ fabric # None) =>
    ShownTexts = Concat([k \in 1..Len(result[1].pages) |-> ExpectedTexts(k)])

\* a page was converted whose free line is blank and whose table has a row
\* with a text: its text objects are the badge and the line of that text
C17_Witness ==
  /\ result # None
  /\ fabric # None
  /\ Len(result[1].pages) = 1
  /\ \E line \in Range(LinesOfPage(1)) : strip(LineText(line)) = <<>>
  /\ \E t \in Range(result[1].pages[1].tables) : t.rows # <<>>
  /\ Len(ShownTexts) = 2

----------------------------------------------------------------------------
(* chat/pdf_generator.py, PDFDocumentGenerator: plain-content and          *)
(* structure-preserving synthesis.  ReportLab is outside the repository: a *)
(* flowable is the record of the arguments it was built from, and          *)
(* Paragraph(text, style) raises ValueError when the tags of its markup do *)
(* not pair up.  A story is the list of flowables handed to doc.build.     *)

MinRowLength == 10
LongLine == 80

\* the index of the first occurrence of needle in s, 0 if there is none
IndexOf(s, needle) ==
  LET at == {i \in 1..(Len(s) - Len(needle) + 1) :
               SubSeq(s, i, i + Len(needle) - 1) = needle}
  IN IF at = {} \/ needle = <<>> THEN 0 ELSE SetMin(at)

StartsWith(s, prefix) ==
  Len(s) >= Len(prefix) /\ SubSeq(s, 1, Len(prefix)) = prefix

\* s[n:]
From(s, n) == SubSeq(s, n + 1, Len(s))

RECURSIVE Replace(_, _, _)
\* s.replace(old, new): the occurrences of old from left to right, not
\* overlapping; the result is not searched again
Replace(s, old, new) ==
  LET i == IndexOf(s, old)
  IN IF i = 0 THEN s
     ELSE SubSeq(s, 1, i - 1) \o new \o Replace(From(s, i + Len(old) - 1), old, new)

RECURSIVE SplitOn(_, _)
\* s.split(c) for a one-character separator
SplitOn(s, c) ==
  LET at == {i \in 1..Len(s) : s[i] = c}
  IN IF at = {} THEN <<s>>
     ELSE <<SubSeq(s, 1, SetMin(at) - 1)>> \o SplitOn(From(s, SetMin(at)), c)

\* the first maximal run of at least 2 whitespace characters of s, as
\* <<first, last>>, or <<>>
FirstSpaceRun(s) ==
  LET starts == {i \in 1..(Len(s) - 1) : s[i] \in Whitespace /\ s[i + 1] \in Whitespace}
  IN IF starts = {} THEN <<>>
     ELSE LET first == SetMin(starts)
              last == SetMax({j \in first..Len(s) :
                                \A k \in first..j : s[k] \in Whitespace})
          IN <<first, last>>

RECURSIVE SplitSpaceRuns(_)
\* re.split(r'\s{2,}', s)
SplitSpaceRuns(s) ==
  LET run == FirstSpaceRun(s)
  IN IF run = <<>> THEN <<s>>
     ELSE <<SubSeq(s, 1, run[1] - 1)>> \o SplitSpaceRuns(From(s, run[2]))

\* len(re.findall(r'\s{2,}', s))
CountSpaceRuns(s) == Len(SplitSpaceRuns(s)) - 1

Digits == {"0", "1", "2", "3", "4", "5", "6", "7", "8", "9"}

\* re.match(r'^\d+\.', s)
IsNumbered(s) ==
  \E n \in 1..(Len(s) - 1) :
    /\ \A k \in 1..n : s[k] \in Digits
    /\ s[n + 1] = "."

Stars == <<"*", "*">>
BoldOpen == <<"<", "b", ">">>
BoldClose == <<"<", "/", "b", ">">>

RECURSIVE BoldSub(_)
\* re.sub(r'\*\*(.*?)\*\*', r'<b>\1</b>', s)
BoldSub(s) ==
  LET i == IndexOf(s, Stars)
      rest == From(s, i + 1)
      j == IndexOf(rest, Stars)
  IN IF i = 0 THEN s
     ELSE IF j = 0 THEN s
     ELSE SubSeq(s, 1, i - 1) \o BoldOpen \o SubSeq(rest, 1, j - 1) \o BoldClose
            \o BoldSub(From(rest, j + 1))

\* line.replace('&', '&amp;').replace('<', '&lt;').replace('>', '&gt;')
Escape(s) ==
  Replace(Replace(Replace(s, <<"&">>, <<"&", "a", "m", "p", ";">>),
                  <<"<">>, <<"&", "l", "t", ";">>),
          <<">">>, <<"&", "g", "t", ";">>)

RECURSIVE Occurs(_, _)
\* s.count(needle)
Occurs(s, needle) ==
  LET i == IndexOf(s, needle)
  IN IF i = 0 THEN 0 ELSE 1 + Occurs(From(s, i + Len(needle) - 1), needle)

\* Paragraph(text, style) raises: the markup opens a tag it does not close,
\* or closes one it did not open
Unparseable(text) == Occurs(text, BoldOpen) # Occurs(text, BoldClose)

Paragraph(text, style) == [kind |-> "Paragraph", text |-> text, style |-> style]
\* Spacer(1, tenths * 0.1 * inch)
Spacer(tenths) == [kind |-> "Spacer", tenths |-> tenths]
PageBreak == [kind |-> "PageBreak"]
\* Table(data, colWidths=...) with the style named look
Table(data, look) == [kind |-> "Table", data |-> data, look |-> look]

MarkModified == <<"[", "M", "O", "D", "I", "F", "I", "U+00C9", "]">>
MarkAdded == <<"[", "A", "J", "O", "U", "T", "U+00C9", "]">>

\* a line of any length taken for a table row
_looks_like_table_row_any_length(line) ==
  IF line = <<>> THEN FALSE ELSE CountSpaceRuns(line) >= 2

\* _looks_like_table_row (lines 638-650)
_looks_like_table_row(line) ==
  IF line = <<>> \/ Len(line) < MinRowLength THEN FALSE
  ELSE CountSpaceRuns(line) >= 2

\* the rows of the table built from table_lines (lines 543-558)
implicit_table(table_lines) ==
  LET cells_of(tline) ==
        SelectSeq([c \in 1..Len(SplitSpaceRuns(strip(tline))) |->
                     strip(SplitSpaceRuns(strip(tline))[c])],
                  LAMBDA cell : cell # <<>>)
      table_data == SelectSeq([k \in 1..Len(table_lines) |-> cells_of(table_lines[k])],
                              LAMBDA cells : cells # <<>>)
      max_cols == SetMax({Len(table_data[r]) : r \in 1..Len(table_data)})
  IN [r \in 1..Len(table_data) |->
        [c \in 1..max_cols |->
           IF c <= Len(table_data[r]) THEN table_data[r][c] ELSE <<>>]]

\* the paragraph of a line that is not part of a table (lines 591-632)
line_paragraph(clean_line, line) ==
  IF StartsWith(clean_line, <<"#", " ">>)
    THEN Paragraph(strip(From(clean_line, 2)), "CustomHeading1")
  ELSE IF StartsWith(clean_line, <<"#", "#", " ">>)
    THEN Paragraph(strip(From(clean_line, 3)), "CustomHeading2")
  ELSE IF StartsWith(clean_line, <<"#", "#", "#", " ">>)
    THEN Paragraph(strip(From(clean_line, 4)), "Heading3")
  ELSE IF \/ StartsWith(clean_line, <<"-", " ">>)
          \/ StartsWith(clean_line, <<"*", " ">>)
          \/ StartsWith(clean_line, <<".">>)
    THEN Paragraph(<<"U+2022", " ">> \o strip(From(clean_line, 2)), "CustomBullet")
  ELSE IF IsNumbered(clean_line)
    THEN Paragraph(clean_line, "CustomBullet")
  ELSE IF Contains(clean_line, Stars)
    THEN Paragraph(BoldSub(clean_line), "CustomBody")
  ELSE IF Len(clean_line) > LongLine \/ Contains(line, <<"\t">>)
    THEN Paragraph(Escape(clean_line), "Preformat")
  ELSE Paragraph(Escape(clean_line), "CustomBody")

RECURSIVE parse_lines_rescan(_, _, _)
\* the loop going on, after a table, at the last line of the table
parse_lines_rescan(lines, i, acc) ==
  IF i > Len(lines) THEN [story |-> acc, raised |-> FALSE]
  ELSE
    LET line == strip(lines[i])
        clean_line == strip(Replace(Replace(line, MarkModified, <<>>), MarkAdded, <<>>))
        ends == {j \in i..Len(lines) : ~_looks_like_table_row(strip(lines[j]))}
        j == IF ends = {} THEN Len(lines) + 1 ELSE SetMin(ends)
        table_lines == [k \in 1..(j - i) |-> strip(lines[i + k - 1])]
        paragraph == line_paragraph(clean_line, line)
    IN IF line = <<>> THEN parse_lines_rescan(lines, i + 1, Append(acc, Spacer(1)))
       ELSE IF clean_line = <<>> THEN parse_lines_rescan(lines, i + 1, acc)
       ELSE IF _looks_like_table_row(clean_line) /\ Len(table_lines) >= 2
         THEN parse_lines_rescan(lines, j - 1,
                acc \o <<Spacer(1), Table(implicit_table(table_lines), "themed"),
                         Spacer(1)>>)
       ELSE IF Unparseable(paragraph.text) THEN [story |-> acc, raised |-> TRUE]
       ELSE parse_lines_rescan(lines, i + 1, Append(acc, paragraph))

RECURSIVE parse_lines(_, _, _)
\* the loop of _parse_clean_content from line i (1-based) on, story holding
\* what was appended so far: the story, or the fact that a Paragraph raised
parse_lines(lines, i, acc) ==
  IF i > Len(lines) THEN [story |-> acc, raised |-> FALSE]
  ELSE
    LET line == strip(lines[i])
        clean_line == strip(Replace(Replace(line, MarkModified, <<>>), MarkAdded, <<>>))
        ends == {j \in i..Len(lines) : ~_looks_like_table_row(strip(lines[j]))}
        j == IF ends = {} THEN Len(lines) + 1 ELSE SetMin(ends)
        table_lines == [k \in 1..(j - i) |-> strip(lines[i + k - 1])]
        paragraph == line_paragraph(clean_line, line)
    IN IF line = <<>> THEN parse_lines(lines, i + 1, Append(acc, Spacer(1)))
       ELSE IF clean_line = <<>> THEN parse_lines(lines, i + 1, acc)
       ELSE IF _looks_like_table_row(clean_line) /\ Len(table_lines) >= 2
         THEN parse_lines(lines, j,
                acc \o <<Spacer(1), Table(implicit_table(table_lines), "themed"),
                         Spacer(1)>>)
       ELSE IF Unparseable(paragraph.text) THEN [story |-> acc, raised |-> TRUE]
       ELSE parse_lines(lines, i + 1, Append(acc, paragraph))

\* _parse_clean_content (lines 507-636)
_parse_clean_content(content) == parse_lines(SplitOn(content, "\n"), 1, <<>>)

\* the outcome of a generator call: the story handed to doc.build, or the
\* exception that left the call
Built(flowables) == [outcome |-> "pdf", story |-> flowables]
Raised(flowables) == [outcome |-> "raised", story |-> flowables]

\* f"Document mis a jour - Genere le {generation_date}" (line 345)
MetaText(generation_date) ==
  <<"D", "o", "c", "u", "m", "e", "n", "t", " ", "m", "i", "s", " ", "U+00E0", " ",
    "j", "o", "u", "r", " ", "-", " ", "G", "U+00E9", "n", "U+00E9", "r", "U+00E9",
    " ", "l", "e", " ">> \o generation_date

\* generate_clean_document_pdf (lines 304-355)
generate_clean_document_pdf(title, content, generation_date) ==
  LET head == <<Paragraph(title, "CustomTitle"), Spacer(3),
                Paragraph(MetaText(generation_date), "MetaData"), Spacer(2)>>
      parsed == _parse_clean_content(content)
  IN IF Unparseable(title) THEN Raised(<<>>)
     ELSE IF parsed.raised THEN Raised(head)
     ELSE Built(head \o parsed.story)

\* the modification map of a call: not given (None), or a dict whose items
\* are <<old_text, new_text>> in insertion order
NoModifications == [given |-> FALSE, items |-> <<>>]
Modifications(items) == [given |-> TRUE, items |-> items]
\* `if modifications:` (lines 402, 423)
truthy(modifications) == modifications.given /\ modifications.items # <<>>

RECURSIVE apply_items(_, _)
\* the loop over modifications.items() (lines 403-405, 498-500)
apply_items(text, items) ==
  IF items = <<>> THEN text
  ELSE apply_items(IF Contains(text, Head(items)[1])
                     THEN Replace(text, Head(items)[1], Head(items)[2])
                     ELSE text,
                   Tail(items))

\* _apply_modifications_to_table (lines 486-505)
_apply_modifications_to_table(table_data, modifications) ==
  [r \in 1..Len(table_data) |->
     [c \in 1..Len(table_data[r]) |-> apply_items(table_data[r][c], modifications.items)]]

\* the text of one page, a page with tables keeping its first line only
page_text_flowables_one_line(page, modifications) ==
  LET lines == SplitOn(page.text, "\n")
  IN IF page.text = <<>> THEN [story |-> <<>>, raised |-> FALSE]
     ELSE IF page.tables # <<>>
       THEN IF strip(lines[1]) = <<>> THEN [story |-> <<>>, raised |-> FALSE]
            ELSE IF Unparseable(lines[1]) THEN [story |-> <<>>, raised |-> TRUE]
            ELSE [story |-> <<Paragraph(lines[1], "Normal"), Spacer(1)>>, raised |-> FALSE]
     ELSE _parse_clean_content(page.text)

\* the flowables of the text of one page (lines 398-416)
page_text_flowables(page, modifications) ==
  LET page_text == IF truthy(modifications)
                     THEN apply_items(page.text, modifications.items)
                     ELSE page.text
      lines == SplitOn(page_text, "\n")
      header_text == Join(SubSeq(lines, 1, Min2(2, Len(lines))), <<"\n">>)
  IN IF page.text = <<>> THEN [story |-> <<>>, raised |-> FALSE]
     ELSE IF page.tables # <<>>
       THEN IF strip(header_text) = <<>> THEN [story |-> <<>>, raised |-> FALSE]
            ELSE IF Unparseable(header_text) THEN [story |-> <<>>, raised |-> TRUE]
            ELSE [story |-> <<Paragraph(header_text, "Normal"), Spacer(1)>>,
                  raised |-> FALSE]
     ELSE _parse_clean_content(page_text)

RECURSIVE page_table_flowables(_, _)
\* the flowables of the tables of one page (lines 419-479)
page_table_flowables(tables, modifications) ==
  IF tables = <<>> THEN [story |-> <<>>, raised |-> FALSE]
  ELSE
    LET table_data == IF truthy(modifications)
                        THEN _apply_modifications_to_table(Head(tables).data, modifications)
                        ELSE Head(tables).data
        rest == page_table_flowables(Tail(tables), modifications)
    IN IF table_data = <<>> THEN rest
       ELSE IF Len(table_data[1]) = 0 THEN [story |-> <<>>, raised |-> TRUE]
       ELSE [story |-> <<Spacer(2), Table(table_data, "plain"), Spacer(2)>> \o rest.story,
             raised |-> rest.raised]

RECURSIVE structure_pages(_, _, _, _)
\* the loop over the pages (lines 387-479), story holding what was appended
structure_pages(pages, n, modifications, acc) ==
  IF n > Len(pages) THEN Built(acc)
  ELSE
    LET break == IF n > 1 THEN <<PageBreak>> ELSE <<>>
        text == page_text_flowables(pages[n], modifications)
        tables == page_table_flowables(pages[n].tables, modifications)
    IN IF text.raised THEN Raised(acc \o break \o text.story)
       ELSE IF tables.raised THEN Raised(acc \o break \o text.story \o tables.story)
       ELSE structure_pages(pages, n + 1, modifications,
                            acc \o break \o text.story \o tables.story)

\* generate_pdf_from_structure (lines 357-484)
generate_pdf_from_structure(title, pdf_structure, modifications) ==
  IF Unparseable(title) THEN Raised(<<>>)
  ELSE structure_pages(pdf_structure.pages, 1, modifications,
                       <<Paragraph(title, "CustomTitle"), Spacer(3)>>)

----------------------------------------------------------------------------
\* The generator (chat/pdf_generator.py): its calls and the inputs they take

\* one line of content, of each kind _parse_clean_content tells apart
\* "Total due"
PlainLine == <<"T", "o", "t", "a", "l", " ", "d", "u", "e">>
\* "# Terms"
HeadingLine == <<"#", " ", "T", "e", "r", "m", "s">>
\* "- item"
BulletLine == <<"-", " ", "i", "t", "e", "m">>
\* "**net**"
BoldLine == <<"*", "*", "n", "e", "t", "*", "*">>
\* "paid [AJOUTU+00C9]"
MarkedLine == <<"p", "a", "i", "d", " ", "[", "A", "J", "O", "U", "T", "U+00C9", "]">>
\* "[MODI[AJOUTU+00C9]FIU+00C9] x"
NestedMarkLine == <<"[", "M", "O", "D", "I", "[", "A", "J", "O", "U", "T", "U+00C9", "]", "F", "I", "U+00C9", "]", " ", "x">>
\* "- <b>due"
OpenTagLine == <<"-", " ", "<", "b", ">", "d", "u", "e">>
\* "Qty  Price  Sum"
RowLine == <<"Q", "t", "y", " ", " ", "P", "r", "i", "c", "e", " ", " ", "S", "u", "m">>
\* "[MODIFIU+00C9]  4  12"
MarkedRowLine == <<"[", "M", "O", "D", "I", "F", "I", "U+00C9", "]", " ", " ", "4", " ", " ", "1", "2">>
\* "a  b  c"
ShortRowLine == <<"a", " ", " ", "b", " ", " ", "c">>
\* "# No  Item  Sum"
HeadingRowLine == <<"#", " ", "N", "o", " ", " ", "I", "t", "e", "m", " ", " ", "S", "u", "m">>
\* ""
EmptyLine == <<>>
ContentLines ==
  {PlainLine, HeadingLine, BulletLine, BoldLine, MarkedLine, NestedMarkLine,
   OpenTagLine, RowLine, MarkedRowLine, ShortRowLine, HeadingRowLine, EmptyLine}

MaxLines == 2
MaxGenPages == 2

\* content: up to MaxLines lines joined by newlines
Contents == {Join(ls, <<"\n">>) : ls \in SeqsUpTo(ContentLines, MaxLines)}

Titles == {<<"B", "i", "l", "l">>}
Dates == {<<"0", "6", "/", "1", "1", "/", "2", "0", "2", "6">>}

\* a page of PDFStructureExtractor.extract_structure (pdf_extractor.py 49-96)
StructurePage(text, tables) == [text |-> text, tables |-> tables]
\* a cleaned table: rows of string cells, no row without a non-empty cell
ExtractedTable(data) == [data |-> data, rows |-> Len(data), cols |-> Len(data[1])]
PriceTable ==
  ExtractedTable(<< <<<<"Q", "t", "y">>, <<"S", "u", "m">>>>,
                    <<<<"4">>, <<"1", "2">>>> >>)
PageTexts ==
  {PlainLine,
   Join(<<PlainLine, RowLine, BulletLine>>, <<"\n">>),
   Join(<<HeadingLine, MarkedLine>>, <<"\n">>),
   OpenTagLine,
   <<>>}
StructurePages ==
  {StructurePage(text, tables) : text \in PageTexts, tables \in {<<>>, <<PriceTable>>}}
Structures == {[pages |-> ps] : ps \in SeqsUpTo(StructurePages, MaxGenPages)}
\* {"due": "paid"} and {"paid": "void"}
DuePaid == << <<"d", "u", "e">>, <<"p", "a", "i", "d">> >>
PaidVoid == << <<"p", "a", "i", "d">>, <<"v", "o", "i", "d">> >>
ModificationMaps ==
  {NoModifications, Modifications(<<>>), Modifications(<<DuePaid>>),
   Modifications(<<DuePaid, PaidVoid>>), Modifications(<<PaidVoid, DuePaid>>)}

\* a call of generate_clean_document_pdf, on the PDFDocumentGenerator its
\* caller constructed for it (document_modifier.py 195-196, views.py 453)
GenerateClean ==
  \E title \in Titles, content \in Contents, generation_date \in Dates :
    LET out == generate_clean_document_pdf(title, content, generation_date)
    IN /\ request = None
       /\ request' = [op |-> "clean", title |-> title, content |-> content]
       /\ story' = out.story
       /\ generated' = out.outcome
       /\ UNCHANGED <<ext_vars, fn_vars, view_vars>>

\* a call of generate_pdf_from_structure, on the PDFDocumentGenerator its
\* caller constructed for it (document_modifier.py 159-164, views.py 562)
GenerateFromStructure ==
  \E title \in Titles, pdf_structure \in Structures, modifications \in ModificationMaps :
    LET out == generate_pdf_from_structure(title, pdf_structure, modifications)
    IN /\ request = None
       /\ request' = [op |-> "structure", title |-> title,
                      pdf_structure |-> pdf_structure, modifications |-> modifications]
       /\ story' = out.story
       /\ generated' = out.outcome
       /\ UNCHANGED <<ext_vars, fn_vars, view_vars>>

NextGen == GenerateClean \/ GenerateFromStructure

\* PDFDocumentGenerator() keeps nothing between calls but its styles
InitGen == InitWith(File("missing", <<>>))
SpecGen == InitGen /\ [][NextGen]_vars

----------------------------------------------------------------------------
\* Properties of the generated documents, checked under SpecGen

StructureCall == request # None /\ request.op = "structure"
CleanCall == request # None /\ request.op = "clean"
EmptyMap == StructureCall /\ request.modifications = Modifications(<<>>)

RECURSIVE SplitAtBreaks(_)
\* the flowables between the page breaks of a story
SplitAtBreaks(flowables) ==
  LET breaks == {i \in 1..Len(flowables) : flowables[i] = PageBreak}
      first == SetMin(breaks)
  IN IF breaks = {} THEN <<flowables>>
     ELSE <<SubSeq(flowables, 1, first - 1)>>
          \o SplitAtBreaks(SubSeq(flowables, first + 1, Len(flowables)))

\* what the story holds for page n: the flowables after the title block
PageStory(n) == SplitAtBreaks(SubSeq(story, 3, Len(story)))[n]
OfKind(flowables, kind) == SelectSeq(flowables, LAMBDA fl : fl.kind = kind)
\* the lines of the text the paragraphs of page n show
RenderedLines(n) ==
  LET texts == OfKind(PageStory(n), "Paragraph")
  IN IF texts = <<>> THEN <<>>
     ELSE SplitOn(Join([i \in 1..Len(texts) |-> texts[i].text], <<"\n">>), "\n")
\* the non-blank lines of the text of a page
TextLinesOf(page) ==
  SelectSeq([i \in 1..Len(SplitOn(page.text, "\n")) |-> strip(SplitOn(page.text, "\n")[i])],
            LAMBDA line : line # <<>>)
RequestPages == request.pdf_structure.pages
NoMapOutcome ==
  generate_pdf_from_structure(request.title, request.pdf_structure, NoModifications)

HasMarker(text) == Contains(text, MarkModified) \/ Contains(text, MarkAdded)
Cells(flowable) ==
  {flowable.data[r][c] : r \in 1..Len(flowable.data), c \in 1..Len(flowable.data[1])}
ContentParagraphs ==
  {story[i].text : i \in {k \in 5..Len(story) : story[k].kind = "Paragraph"}}
ContentCells ==
  UNION {Cells(story[i]) : i \in {k \in 5..Len(story) : story[k].kind = "Table"}}

\* the paragraphs of the lines of content that are no table rows and whose
\* Paragraph can be built
BuildableParagraphs(content) ==
  LET lines == SplitOn(content, "\n")
      clean(i) == strip(Replace(Replace(strip(lines[i]), MarkModified, <<>>),
                                MarkAdded, <<>>))
      text(i) == line_paragraph(clean(i), strip(lines[i])).text
  IN {text(i) : i \in {k \in 1..Len(lines) : /\ clean(k) # <<>>
                                             /\ ~_looks_like_table_row(clean(k))
                                             /\ ~_looks_like_table_row(strip(lines[k]))
                                             /\ ~Unparseable(text(k))}}

\* C13: a paragraph or table that cannot be built is skipped and nothing
\* else: the call returns a document, which in plain-content mode shows every
\* paragraph that can be built and in structure-preserving mode every table
C13_FailedElementSkipped ==
  request # None =>
    /\ generated = "pdf"
    /\ CleanCall => BuildableParagraphs(request.content) \subseteq ContentParagraphs
    /\ StructureCall =>
         \A n \in 1..Len(RequestPages) :
           Len(OfKind(PageStory(n), "Table")) = Len(RequestPages[n].tables)

\* C16: no paragraph and no table cell of a clean document holds a marker
C16_NoMarkerInCleanDocument ==
  (CleanCall /\ generated = "pdf") =>
    /\ \A text \in ContentParagraphs : ~HasMarker(text)
    /\ \A cell \in ContentCells : ~HasMarker(cell)

----------------------------------------------------------------------------
\* The helpers of the extractor called on their own

MaxCoord == 20
\* coordinates, in points
Coords == {c \in 0..MaxCoord : c % 4 = 0}
\* the boxes <<x0, y0, x1, y1>> with x0 <= x1 and y0 <= y1
Boxes ==
  {b \in Coords \X Coords \X Coords \X Coords : b[1] <= b[3] /\ b[2] <= b[4]}
\* the boxes the others are compared with: a cell, and a rule of no width
OuterBoxes == {<<9, 9, 17, 17>>, <<8, 8, 8, 16>>}

\* the packed colors of PyMuPDF spans: 0xRRGGBB
Channels == {0, 1, 15, 16, 160, 255}
Colors == {r * 65536 + g * 256 + b : r \in Channels, g \in Channels, b \in Channels}

\* _boxes_overlap(inner, outer) and _is_inside(inner, outer), as
\* _extract_tables (line 505) and extract_full_document (line 206) call them
CompareBoxes ==
  \E inner \in Boxes, outer \in OuterBoxes :
    /\ args = None
    /\ args' = [fn |-> "boxes", inner |-> inner, outer |-> outer]
    /\ answer' = [overlap |-> _boxes_overlap(inner, outer, 1, 2),
                  inside |-> _is_inside(inner, outer)]
    /\ UNCHANGED <<ext_vars, gen_vars, view_vars>>

\* _int_to_rgb_hex(color_int), as _extract_formatted_text calls it (line 340)
DecodeColor ==
  \E color_int \in Colors :
    /\ args = None
    /\ args' = [fn |-> "color", color_int |-> color_int]
    /\ answer' = _int_to_rgb_hex(color_int)
    /\ UNCHANGED <<ext_vars, gen_vars, view_vars>>

\* pages with two ruled rectangles: the first 3, 4 or 50 points high and 3
\* or 100 wide, the second at its right or below it, 4, 8 or 50 points from
\* its top; a text in the first, in the second, or none
RuledHeights == {3, 4, 50}
RuledWidths == {3, 100}
RuledOffsets == {4, 8, 50}
RuledTexts ==
  {<<>>,
   <<TextBlockAt(<<"C">>, 110, 120)>>,
   <<TextBlockAt(<<"C">>, 110, 120), TextBlockAt(<<"D">>, 210, 170)>>}
RuledPage(ht, w, dx, dy, blocks) ==
  RawPage(blocks, <<>>,
          << <<Rect(100, 100, w, ht), Rect(100 + dx, 100 + dy, 100, 50)>> >>)
RuledPages ==
  {RuledPage(ht, w, dx, dy, blocks) :
     ht \in RuledHeights, w \in RuledWidths, dx \in {0, 100},
     dy \in RuledOffsets, blocks \in RuledTexts}

\* pages with three words at heights around the multiples of 5, and below
\* them a line of two words
WordYs == {1, 2, 3, 5, 7, 9, 12}
WordLine(text, x, y) == [bbox |-> Box(x, y, 20, 10), spans |-> <<Word(text, x, y)>>]
WordsPage(ya, yb, yc) ==
  RawPage(<< [type |-> 0, bbox |-> <<10, 1, 110, 40>>,
              lines |-> << WordLine(<<"A">>, 10, ya), WordLine(<<"B">>, 50, yb),
                           WordLine(<<"C">>, 90, yc),
                           [bbox |-> <<10, 30, 70, 40>>,
                            spans |-> << Word(<<"D">>, 10, 30),
                                         Word(<<"E">>, 50, 30) >>] >>] >>,
          <<>>, <<>>)
\* two lines of words; on the second, E stands 2 points right of D
CrowdedPage ==
  RawPage(<< [type |-> 0, bbox |-> <<10, 1, 110, 40>>,
              lines |-> << [bbox |-> <<10, 1, 70, 11>>,
                            spans |-> << Word(<<"A">>, 10, 1),
                                         Word(<<"B">>, 50, 1) >>],
                           [bbox |-> <<10, 30, 70, 40>>,
                            spans |-> << Word(<<"D">>, 10, 30),
                                         Word(<<"E">>, 12, 30) >>] >>] >>,
          <<>>, <<>>)
WordsPages ==
  {WordsPage(ya, yb, yc) : ya \in WordYs, yb \in WordYs, yc \in WordYs}
    \cup {CrowdedPage}

\* _detect_tables_from_lines(page, horizontal_lines, vertical_lines), as
\* _extract_tables calls it (lines 482-484), with the groups it forms
DetectFromLines ==
  \E page \in RuledPages :
    LET horizontal_lines == drawing_lines(page, TRUE)
        vertical_lines == drawing_lines(page, FALSE)
    IN /\ args = None
       /\ args' = [fn |-> "lines", page |-> page]
       /\ answer' = [h_groups |-> h_groups_of(horizontal_lines),
                     v_groups |-> v_groups_of(vertical_lines),
                     tables |-> _detect_tables_from_lines(page, horizontal_lines,
                                                          vertical_lines)]
       /\ UNCHANGED <<ext_vars, gen_vars, view_vars>>

\* _detect_tables_from_text_alignment(page), as _extract_tables calls it
\* (line 493), with the lines it clusters the words into
DetectFromText ==
  \E page \in WordsPages :
    /\ args = None
    /\ args' = [fn |-> "text", page |-> page]
    /\ answer' = [lines |-> lines_of_words(page),
                  tables |-> _detect_tables_from_text_alignment(page)]
    /\ UNCHANGED <<ext_vars, gen_vars, view_vars>>

\* drawing items that are not well formed: a tuple too short, or one whose
\* coordinate at an index of nonnum is None
MalformedItems ==
     {[type |-> t, c |-> <<300, 300, 50, 60>>, nonnum |-> {k}] :
        t \in {"re", "l"}, k \in 1..4}
  \cup {[type |-> t, c |-> c, nonnum |-> {}] :
          t \in {"re", "l"}, c \in {<<>>, <<300, 300, 50>>}}
\* a ruled cell holding a text
CellPage == RawPage(<<CellText>>, <<>>, << <<CellRect>> >>)
\* the page with one more item, in the drawing of the cell (before or after
\* its rectangle) or in a drawing of its own
WithItem(item, place) ==
  [CellPage EXCEPT !.drawings =
     CASE place = "before" -> << <<item, CellRect>> >>
       [] place = "after" -> << <<CellRect, item>> >>
       [] OTHER -> << <<CellRect>>, <<item>> >>]

\* _extract_tables(page), as extract_full_document calls it (line 140), on
\* a page one of whose drawing items is malformed
ExtractTables ==
  \E item \in MalformedItems, place \in {"before", "after", "apart"} :
    /\ args = None
    /\ args' = [fn |-> "tables", page |-> WithItem(item, place), item |-> item]
    /\ answer' = _extract_tables(WithItem(item, place))
    /\ UNCHANGED <<ext_vars, gen_vars, view_vars>>

NextHelpers ==
  \/ CompareBoxes
  \/ DecodeColor
  \/ DetectFromLines
  \/ DetectFromText
  \/ ExtractTables
InitHelpers == InitWith(File("missing", <<>>))
SpecHelpers == InitHelpers /\ [][NextHelpers]_vars

----------------------------------------------------------------------------
\* Properties of the helpers, checked under SpecHelpers

BoxesCall == args # None /\ args.fn = "boxes"
ColorCall == args # None /\ args.fn = "color"
\* how far apart two intervals [a0, a1] and [b0, b1] are
Gap(a0, a1, b0, b1) == Max2(0, Max2(b0 - a1, a0 - b1))

\* C14 as stated: two boxes whose intersection has no area do not overlap
\* and the first is not inside the second
C14_DisjointNeitherOverlapNorInside ==
  (BoxesCall /\ SharedArea(args.inner, args.outer) = 0) =>
    /\ ~answer.overlap
    /\ ~answer.inside

\* C14 amended: two boxes whose intersection has no area do not overlap; the
\* first is reported inside the second exactly when none of its sides lies
\* more than 5 points beyond the same side of the second, and never when the
\* boxes are more than 5 points apart
C14_DisjointNoOverlapInsideWithinMargin ==
  (BoxesCall /\ SharedArea(args.inner, args.outer) = 0) =>
    /\ ~answer.overlap
    /\ answer.inside <=> WithinMargin(args.inner, args.outer)
    /\ (\/ Gap(args.inner[1], args.inner[3], args.outer[1], args.outer[3]) > 5
        \/ Gap(args.inner[2], args.inner[4], args.outer[2], args.outer[4]) > 5)
       => ~answer.inside

\* a box of positive area next to the cell, apart from it, reported inside it
C14_Witness ==
  /\ BoxesCall
  /\ BoxArea(args.inner) > 0 /\ BoxArea(args.outer) > 0
  /\ Gap(args.inner[1], args.inner[3], args.outer[1], args.outer[3]) > 0
  /\ answer.inside
  /\ ~answer.overlap

HexValueOf == [d \in {"0", "1", "2", "3", "4", "5", "6", "7", "8", "9"} |->
                 CHOOSE v \in 0..9 : <<"0", "1", "2", "3", "4", "5", "6", "7", "8", "9">>[v + 1] = d]
              @@ ("a" :> 10 @@ "b" :> 11 @@ "c" :> 12 @@ "d" :> 13 @@ "e" :> 14 @@ "f" :> 15)
\* the value of the two hex digits of text at i and i + 1
ChannelAt(text, i) == 16 * HexValueOf[text[i]] + HexValueOf[text[i + 1]]

\* C15: the text of a packed color is '#' and six lowercase hex digits, two
\* for each of red (bits 16-23), green (bits 8-15) and blue (bits 0-7); their
\* value is the packed color, so two colors never have the same text
C15_HexTextIsTheColor ==
  ColorCall =>
    /\ Len(answer) = 7
    /\ answer[1] = "#"
    /\ \A i \in 2..7 : answer[i] \in DOMAIN HexValueOf
    /\ ChannelAt(answer, 2) = (args.color_int \div 65536) % 256
    /\ ChannelAt(answer, 4) = (args.color_int \div 256) % 256
    /\ ChannelAt(answer, 6) = args.color_int % 256
    /\ 65536 * ChannelAt(answer, 2) + 256 * ChannelAt(answer, 4) + ChannelAt(answer, 6)
         = args.color_int
    /\ \A other \in Colors : _int_to_rgb_hex(other) = answer => other = args.color_int

\* a color whose three channels differ and need a letter digit and a leading 0
C15_Witness ==
  /\ ColorCall
  /\ args.color_int = 160 * 65536 + 15 * 256 + 255
  /\ answer = <<"#", "a", "0", "0", "f", "f", "f">>

LinesCall == args # None /\ args.fn = "lines"
TextCall == args # None /\ args.fn = "text"

\* C18: a grid table is returned only when the segments form at least 2 row
\* groups and at least 2 column groups; each of its rows has one cell less
\* than there are column groups, and a cell that is not empty
C18_GridNeedsTwoGroupsEachWay ==
  LinesCall =>
    \A t \in Range(answer.tables) :
      /\ t.type = "grid"
      /\ Len(answer.h_groups) >= 2
      /\ Len(answer.v_groups) >= 2
      /\ \A r \in 1..Len(t.rows) :
           /\ Len(t.rows[r]) = Len(answer.v_groups) - 1
           /\ \E c \in 1..Len(t.rows[r]) : t.rows[r][c] # <<>>

\* a grid of two columns and three row groups, one band of which has no
\* text: the table has fewer rows than bands
C18_Witness ==
  /\ LinesCall
  /\ Len(answer.tables) = 1
  /\ Len(answer.v_groups) = 3
  /\ Len(answer.h_groups) = 3
  /\ Len(answer.tables[1].rows) = 1

\* the pairs of segments of one group
SameGroup(groups) ==
  UNION {Range(groups[g]) \X Range(groups[g]) : g \in 1..Len(groups)}

\* C19 as stated: two horizontal segments of one row group are less than 5
\* points apart in y, two vertical segments of one column group in x
C19_GroupWithinFivePoints ==
  LinesCall =>
    /\ \A pair \in SameGroup(answer.h_groups) : Abs(pair[1][2] - pair[2][2]) < 5
    /\ \A pair \in SameGroup(answer.v_groups) : Abs(pair[1][1] - pair[2][1]) < 5

\* each segment of a group after the first is less than 5 away (coordinate k)
\* from the one before it, and the first of a group is 5 or more away from
\* the last of the group before
Chained(groups, k) ==
  /\ \A g \in 1..Len(groups) : \A i \in 2..Len(groups[g]) :
       /\ groups[g][i][k] - groups[g][i - 1][k] >= 0
       /\ groups[g][i][k] - groups[g][i - 1][k] < 5
  /\ \A g \in 2..Len(groups) :
       groups[g][1][k] - groups[g - 1][Len(groups[g - 1])][k] >= 5

\* C19 amended: the segments being taken in ascending order of y (of x for
\* the vertical ones), each segment of a group is less than 5 points from
\* the segment before it in the group, and a group starts where a segment is
\* 5 points or more from the one before it; two segments of a group can be
\* 5 points or more apart
C19_GroupChainsWithinFivePoints ==
  LinesCall =>
    /\ Chained(answer.h_groups, 2)
    /\ Chained(answer.v_groups, 1)

\* row boundaries at 100, 104 and 108 are one group, and the table is found
C19_Witness ==
  /\ LinesCall
  /\ answer.tables # <<>>
  /\ \E pair \in SameGroup(answer.h_groups) : pair[2][2] - pair[1][2] = 8

\* the nearest multiple of 5 of a whole number of points
Round5(y) == 5 * ((2 * y + 5) \div 10)
\* the tokens of the page: its spans with a text
Tokens == Range(all_words_of(args.page))
\* two tokens are in one of the lines kept
SameLine(a, b) == \E l \in 1..Len(answer.lines) : {a, b} \subseteq Range(answer.lines[l])
\* the tokens in ascending order of (y rounded to a multiple of 5, x)
Visited ==
  LET Before(a, b) == \/ Round5(a.y) < Round5(b.y)
                      \/ Round5(a.y) = Round5(b.y) /\ a.x < b.x
  IN [p \in 1..Cardinality(Tokens) |->
        CHOOSE w \in Tokens : Cardinality({v \in Tokens : Before(v, w)}) = p - 1]
\* the rows of the tables are the lines kept, a cell for each token
\* the column of a token: its x rounded to a multiple of 10, half to even
ColumnOfToken(w) ==
  LET q == w.x \div 10
      r == w.x % 10
  IN IF r < 5 \/ (r = 5 /\ q % 2 = 0) THEN 10 * q ELSE 10 * (q + 1)
\* the columns of the lines kept, in ascending order
ColumnsKept ==
  SortedSet(UNION {{ColumnOfToken(w) : w \in Range(answer.lines[l])} :
                     l \in 1..Len(answer.lines)})
\* the places in line l of the tokens of column x
InColumn(l, x) ==
  {i \in 1..Len(answer.lines[l]) : ColumnOfToken(answer.lines[l][i]) = x}
\* the rows of the table are the lines kept: a cell holds the last token of
\* the line in its column, and is empty when the line has none there
RowsAreLines ==
  /\ Len(answer.tables) = IF Len(answer.lines) >= 2 THEN 1 ELSE 0
  /\ \A t \in Range(answer.tables) :
       /\ Len(t.rows) = Len(answer.lines)
       /\ \A r \in 1..Len(t.rows) :
            /\ Len(t.rows[r]) = Len(ColumnsKept)
            /\ \A c \in 1..Len(ColumnsKept) :
                 t.rows[r][c] =
                   IF InColumn(r, ColumnsKept[c]) = {} THEN <<>>
                   ELSE answer.lines[r][SetMax(InColumn(r, ColumnsKept[c]))].text

\* C20 as stated: two tokens are in the same line exactly when their y round
\* to the same multiple of 5, and a cluster of fewer than 2 tokens gives no row
C20_SameLineIffSameRounding ==
  TextCall =>
    /\ \A a, b \in Tokens :
         a # b => (SameLine(a, b) <=> Round5(a.y) = Round5(b.y))
    /\ \A l \in 1..Len(answer.lines) : Len(answer.lines[l]) >= 2
    /\ RowsAreLines

\* C20 amended: the tokens are visited in ascending order of (y rounded to
\* the nearest multiple of 5, x); a line is a run of tokens visited one after
\* the other whose y are each less than 5 points from the y of the first
\* token of the run, ended by the first token that is 5 points or more from
\* it; only runs of at least 2 tokens are lines, and they alone give rows
C20_LineIsRunNearItsFirstToken ==
  TextCall =>
    /\ \A l \in 1..Len(answer.lines) :
         LET line == answer.lines[l]
         IN /\ Len(line) >= 2
            /\ \A i \in 1..Len(line) : Abs(line[i].y - line[1].y) < 5
            /\ \E start \in 1..Len(Visited) :
                 /\ start + Len(line) - 1 <= Len(Visited)
                 /\ line = SubSeq(Visited, start, start + Len(line) - 1)
                 /\ start + Len(line) <= Len(Visited) =>
                      Abs(Visited[start + Len(line)].y - line[1].y) >= 5
    /\ RowsAreLines

\* tokens at y = 2 and y = 3, which round to 0 and to 5, are one line, and
\* the table has a row for it
C20_Witness ==
  /\ TextCall
  /\ answer.tables # <<>>
  /\ \E a, b \in Tokens :
       /\ a.y = 2 /\ b.y = 3
       /\ SameLine(a, b)
       /\ \E r \in 1..Len(answer.tables[1].rows) :
            {a.text, b.text} \subseteq Range(answer.tables[1].rows[r])

TablesCall == args # None /\ args.fn = "tables"

\* C21: a malformed drawing item is skipped by itself: the tables of the
\* page are those of the page without the item
C21_MalformedItemIsAbsent ==
  TablesCall => answer = _extract_tables(CellPage)

----------------------------------------------------------------------------
\* Properties of plain-content parsing, checked under SpecGen

\* the number of maximal runs of at least 2 whitespace characters of s
SpaceRuns(s) ==
  Cardinality({i \in 1..(Len(s) - 1) :
                 /\ s[i] \in Whitespace /\ s[i + 1] \in Whitespace
                 /\ (i = 1 \/ s[i - 1] \notin Whitespace)})
\* the lines of the content of the call, as they are and without markers
RequestLines == SplitOn(request.content, "\n")
RawLine(i) == strip(RequestLines[i])
CleanLine(i) ==
  strip(Replace(Replace(RawLine(i), MarkModified, <<>>), MarkAdded, <<>>))
\* the line, stripped, has 10 characters or more and 2 runs or more
Tabular(i) == Len(RawLine(i)) >= 10 /\ SpaceRuns(RawLine(i)) >= 2
\* the parts of a line between its runs
CellsOfLine(i) ==
  SelectSeq([c \in 1..Len(SplitSpaceRuns(RawLine(i))) |->
               strip(SplitSpaceRuns(RawLine(i))[c])],
            LAMBDA cell : cell # <<>>)
\* the tables of the content, after the title block
ContentTables ==
  {story[k].data : k \in {n \in 5..Len(story) : story[n].kind = "Table"}}
\* row r of a table holds the cells of line i, and empty cells after them
RowIsLine(data, r, i) ==
  SelectSeq(data[r], LAMBDA cell : cell # <<>>) = CellsOfLine(i)
IsTableRow(i) ==
  \E data \in ContentTables : \E r \in 1..Len(data) : RowIsLine(data, r, i)
IsParagraph(i) ==
  line_paragraph(CleanLine(i), RawLine(i)).text \in ContentParagraphs
\* no line before or after line i is tabular
AloneTabular(i) ==
  /\ Tabular(i)
  /\ i = 1 \/ ~Tabular(i - 1)
  /\ i = Len(RequestLines) \/ ~Tabular(i + 1)

\* C22 as stated: every line with 2 or more runs of 2 or more whitespace
\* characters is a row of a table and no paragraph
C22_TabularLineIsTableRow ==
  (CleanCall /\ generated = "pdf") =>
    \A i \in 1..Len(RequestLines) :
      SpaceRuns(RequestLines[i]) >= 2 => (IsTableRow(i) /\ ~IsParagraph(i))

\* C22 amended: a line counts as tabular when, stripped, it has 10
\* characters or more and 2 or more runs of 2 or more whitespace characters.
\* A tabular line that is still tabular without its markers, is followed by
\* a tabular line and follows none, starts a table of which both are rows;
\* every row of every table is a tabular line and every table has 2 rows or
\* more; a tabular line with no tabular line before or after it is no table
\* row: it is rendered as the paragraph, heading or list item of its text
C22_TabularRunIsTable ==
  (CleanCall /\ generated = "pdf") =>
    /\ \A i \in 1..(Len(RequestLines) - 1) :
         ( /\ Tabular(i) /\ Tabular(i + 1)
           /\ Len(CleanLine(i)) >= 10 /\ SpaceRuns(CleanLine(i)) >= 2
           /\ i = 1 \/ ~Tabular(i - 1) )
         => \E data \in ContentTables : \E r \in 1..(Len(data) - 1) :
              RowIsLine(data, r, i) /\ RowIsLine(data, r + 1, i + 1)
    /\ \A data \in ContentTables :
         /\ Len(data) >= 2
         /\ \A r \in 1..Len(data) :
              \E i \in 1..Len(RequestLines) : Tabular(i) /\ RowIsLine(data, r, i)
    /\ \A i \in 1..Len(RequestLines) :
         AloneTabular(i) => (ContentTables = {} /\ IsParagraph(i))

\* a tabular line alone became a paragraph
C22_Witness ==
  /\ CleanCall
  /\ generated = "pdf"
  /\ Len(RequestLines) = 2
  /\ AloneTabular(1)
  /\ RawLine(1) = RowLine
  /\ RowLine \in ContentParagraphs
  /\ ContentTables = {}

----------------------------------------------------------------------------
\* Properties of the grid of a table object group, checked under SpecMerge

\* the sum of the three channels of a stroke '#rrggbb': less is darker
Brightness(stroke) ==
  ChannelAt(stroke, 2) + ChannelAt(stroke, 4) + ChannelAt(stroke, 6)
\* the positions of the separator lines that follow the overlay at k
GridOf(objects, k) ==
  {n \in (k + 1)..Len(objects) :
     \A m \in (k + 1)..n : objects[m].role \in {"row_line", "col_line"}}
\* the index of the last separator of a role in a grid
LastIndex(objects, grid, role) ==
  SetMax({objects[n].index : n \in {g \in grid : objects[g].role = role}})
\* a first or last row or column separator, or the separator under the header
IsBorderOrHeader(objects, grid, n) ==
  \/ objects[n].index = 0
  \/ objects[n].index = LastIndex(objects, grid, objects[n].role)
  \/ objects[n].role = "row_line" /\ objects[n].index = 1

\* C23: in every table object group each outer border line and the header
\* separator is darker than, and at least as wide as, every interior line
C23_BorderDarkerThanInterior ==
  (result # None /\ fabric # None) =>
    LET objects == fabric[1].objects
    IN \A k \in 1..Len(objects) :
         objects[k].role = "table_overlay" =>
           LET grid == GridOf(objects, k)
           IN \A b, n \in grid :
                ( /\ IsBorderOrHeader(objects, grid, b)
                  /\ ~IsBorderOrHeader(objects, grid, n) ) =>
                  /\ Brightness(objects[b].stroke) < Brightness(objects[n].stroke)
                  /\ objects[b].strokeWidth >= objects[n].strokeWidth

----------------------------------------------------------------------------
\* Properties of the counters over several calls, checked under Spec

RECURSIVE SumSeq(_)
SumSeq(numbers) ==
  IF numbers = <<>> THEN 0 ELSE Head(numbers) + SumSeq(Tail(numbers))
\* the number of entries under key of the pages of the returned structure
CountOf(key) ==
  SumSeq([k \in 1..Len(result[1].pages) |-> Len(result[1].pages[k][key])])
\* the pages of the returned structure that are no placeholder of a failure
ExtractedPages ==
  {k \in 1..Len(result[1].pages) : "error" \notin DOMAIN result[1].pages[k]}

\* C24: after any number of calls of extract_full_document on one extractor
\* pages_extracted is at most total_pages and the counters of the returned
\* stats are the counts of the structure returned by the same call
C24_CountersAreCountsOfTheCall ==
  result # None =>
    /\ stats.pages_extracted <= result[1].total_pages
    /\ stats.pages_extracted = Cardinality(ExtractedPages)
    /\ stats.text_blocks = CountOf("text_blocks")
    /\ stats.images_extracted = CountOf("images")
    /\ stats.tables_detected = CountOf("tables")

----------------------------------------------------------------------------
(* chat/editor_views.py: extract_document_content, save_document_changes   *)
(* and auto_save_document, for the requests to one document id.            *)
(* A JSON object is a record; a Python value that may be None is None or   *)
(* Some(v).  request.POST is a record of the fields the form sent.         *)
(* content_data is given by what json.loads makes of it: [json |-> v] for  *)
(* a text that encodes the object v, [text |-> t] for a text that does not *)
(* parse.  A JSON string that isinstance(_, str) is asked about is         *)
(* [str |-> text]; saved_at is the number of the request.                  *)

MaxRequests == 3

\* the JSON object {}
EmptyObject == [key \in {} |-> None]
\* d.get(key, default)
Get(d, key, default) == IF key \in DOMAIN d THEN d[key] ELSE default
\* key in d and d[key] == value
KeyIs(d, key, value) == key \in DOMAIN d /\ d[key] = value

JsonResponse(data, status) == [data |-> data, status |-> status]
Failure(error, status) ==
  JsonResponse([success |-> FALSE, error |-> error], status)
ContentResponse(content) ==
  JsonResponse([success |-> TRUE, content |-> content], 200)

\* the ops of the text of a document without stored structure (lines 162-169)
text_delta_ops(text_content) ==
  LET lines == SelectSeq(SplitOn(text_content, "\n"),
                         LAMBDA line : strip(line) # <<>>)
  IN Concat([i \in 1..Len(lines) |->
               << [insert |-> [str |-> lines[i]]],
                  [insert |-> [str |-> <<"\n">>]] >>])

\* extract_document_content (lines 103-189): the response
extract_document_content(rows, post) ==
  IF rows.document = None THEN Failure("Document not found", 200)
  ELSE IF rows.doc_content = None THEN Failure("Document content not found", 200)
  ELSE
    LET doc_content == rows.doc_content[1]
        pdf_structure == doc_content.pdf_structure
        format_type == Get(post, "format", "quill")
        filled == pdf_structure # None /\ DOMAIN pdf_structure[1] # {}
    IN IF format_type = "fabric"
         THEN IF ~filled THEN Failure("No PDF structure available", 200)
              ELSE IF /\ "editor_draft" \in DOMAIN pdf_structure[1]
                      /\ KeyIs(pdf_structure[1].editor_draft, "content_type", "fabric")
                THEN ContentResponse(pdf_structure[1].editor_draft.content)
              ELSE IF "pages" \in DOMAIN pdf_structure[1]
                THEN ContentResponse(pdf_structure[1])
              ELSE Failure("No valid PDF structure available", 200)
       ELSE IF /\ filled
               /\ "editor_draft" \in DOMAIN pdf_structure[1]
               /\ KeyIs(pdf_structure[1].editor_draft, "content_type", "quill")
         THEN ContentResponse(pdf_structure[1].editor_draft.content)
       ELSE IF filled /\ KeyIs(pdf_structure[1], "editor_type", "quill")
         THEN ContentResponse(Get(pdf_structure[1], "content", [ops |-> <<>>]))
       ELSE LET text_content ==
                  IF doc_content.raw_text # <<>> THEN doc_content.raw_text
                  ELSE doc_content.processed_text
            IN ContentResponse([ops |-> text_delta_ops(text_content)])

\* a DocumentContent row as get_or_create makes it (lines 210-216, 385-388)
NewContent == [raw_text |-> <<>>, processed_text |-> <<>>, pdf_structure |-> None]

\* the texts of the text objects of a canvas (lines 224-228)
fabric_text_parts(content) ==
  IF "objects" \notin DOMAIN content THEN <<>>
  ELSE LET texts == SelectSeq(content.objects,
                      LAMBDA obj : Get(obj, "type", "") \in {"text", "textbox", "i-text"})
       IN [i \in 1..Len(texts) |-> Get(texts[i], "text", <<>>)]

\* the string inserts of a delta (lines 241-245)
quill_text_parts(content) ==
  IF "ops" \notin DOMAIN content THEN <<>>
  ELSE LET texts == SelectSeq(content.ops,
                      LAMBDA op : "insert" \in DOMAIN op /\ "str" \in DOMAIN op.insert)
       IN [i \in 1..Len(texts) |-> texts[i].insert.str]

\* save_document_changes (lines 191-295): the rows after it and the response.
\* The GeneratedFile of lines 256-276 is never written: the model has no
\* field 'content', get_or_create raises and the handler of line 275 passes.
save_document_changes(rows, post) ==
  IF rows.document = None
    THEN [rows |-> rows, response |-> Failure("Document not found", 200)]
  ELSE
    LET content_type == Get(post, "content_type", "quill")
        content_data == Get(post, "content_data", [json |-> EmptyObject])
    IN IF "json" \notin DOMAIN content_data
         THEN [rows |-> rows, response |-> Failure("Invalid JSON", 200)]
       ELSE
         LET content == content_data.json
             doc_content == IF rows.doc_content = None THEN NewContent
                            ELSE rows.doc_content[1]
             saved ==
               IF content_type = "fabric"
                 THEN [doc_content EXCEPT
                         !.pdf_structure = Some(content),
                         !.processed_text = Join(fabric_text_parts(content), <<"\n">>)]
                 ELSE [doc_content EXCEPT
                         !.pdf_structure =
                            Some([editor_type |-> "quill", content |-> content]),
                         !.processed_text = Concat(quill_text_parts(content))]
         IN [rows |-> [document |-> Some([rows.document[1] EXCEPT !.status = "completed"]),
                       doc_content |-> Some(saved)],
             response |-> JsonResponse([success |-> TRUE, message |-> "saved"], 200)]

\* auto_save_document (lines 359-415), for the logged-in user: the rows after
\* it and the response.  The row made by get_or_create stays when
\* json.loads raises.
auto_save_document(rows, post, is_owner, now) ==
  IF rows.document = None \/ ~is_owner
    THEN [rows |-> rows, response |-> Failure("Not Found", 404)]
  ELSE IF "content_data" \notin DOMAIN post
    THEN [rows |-> rows, response |-> Failure("no data", 400)]
  ELSE
    LET content_type == Get(post, "content_type", "quill")
        doc_content == IF rows.doc_content = None THEN NewContent
                       ELSE rows.doc_content[1]
        structure == IF doc_content.pdf_structure = None
                       THEN EmptyObject
                       ELSE doc_content.pdf_structure[1]
        kept == [key \in DOMAIN structure \ {"editor_draft"} |-> structure[key]]
    IN IF "json" \notin DOMAIN post.content_data
         THEN [rows |-> [rows EXCEPT !.doc_content = Some(doc_content)],
               response |-> Failure("auto save failed", 500)]
       ELSE [rows |-> [rows EXCEPT !.doc_content = Some(
                 [doc_content EXCEPT !.pdf_structure = Some(
                    kept @@ [editor_draft |->
                               [content |-> post.content_data.json,
                                content_type |-> content_type,
                                saved_at |-> now]])])],
             response |->
               JsonResponse([success |-> TRUE, message |-> "auto saved",
                             saved_at |-> now], 200)]

\* what documents/services.py process_document stores for an upload
\* "Bill\n\nDue"
UploadedText == <<"B", "i", "l", "l", "\n", "\n", "D", "u", "e">>
UploadedStructure ==
  [success |-> TRUE, total_pages |-> 1, total_tables |-> 0,
   pages |-> << [page_number |-> 1, text |-> UploadedText, tables |-> <<>>] >>]
UploadedRows ==
  { [document |-> Some([status |-> "error"]), doc_content |-> None],
    [document |-> Some([status |-> "completed"]),
     doc_content |-> Some([raw_text |-> UploadedText, processed_text |-> UploadedText,
                           pdf_structure |-> None])],
    [document |-> Some([status |-> "completed"]),
     doc_content |-> Some([raw_text |-> UploadedText, processed_text |-> UploadedText,
                           pdf_structure |-> Some(UploadedStructure)])] }

\* what the editors send: a delta, a canvas, the stored structure with the
\* objects drawn on it, and a text cut short
QuillContent ==
  [ops |-> << [insert |-> [str |-> <<"H", "i">>]],
              [insert |-> [image |-> <<"u">>]],
              [insert |-> [str |-> <<"\n">>]] >>]
FabricContent ==
  [version |-> <<"5">>,
   objects |-> << [type |-> "rect", text |-> <<>>],
                  [type |-> "textbox", text |-> <<"D", "u", "e">>],
                  [type |-> "i-text", text |-> <<"4">>] >>]
PagedContent == UploadedStructure @@ [objects |-> <<>>]
ContentData ==
  {[json |-> QuillContent], [json |-> FabricContent], [json |-> PagedContent],
   [text |-> <<"{">>]}
Token == [csrfmiddlewaretoken |-> "t"]
ContentPosts ==
     {Token @@ [content_data |-> d] : d \in ContentData}
  \cup {Token @@ [content_data |-> d, content_type |-> t] :
          d \in ContentData, t \in {"quill", "fabric"}}
SavePosts == ContentPosts
AutoSavePosts == ContentPosts \cup {Token}
ExtractPosts == {Token} \cup {Token @@ [format |-> t] : t \in {"quill", "fabric"}}

\* the document is uploaded and processed
UploadDocument ==
  /\ db.document = None
  /\ db' \in UploadedRows
  /\ UNCHANGED <<clock, http, last_save>>
  /\ UNCHANGED <<ext_vars, gen_vars, fn_vars>>

ExtractContent ==
  /\ clock < MaxRequests
  /\ \E post \in ExtractPosts :
       http' = Some([view |-> "extract", post |-> post,
                     response |-> extract_document_content(db, post)])
  /\ clock' = clock + 1
  /\ UNCHANGED <<db, last_save>>
  /\ UNCHANGED <<ext_vars, gen_vars, fn_vars>>

SaveChanges ==
  /\ clock < MaxRequests
  /\ \E post \in SavePosts :
       LET done == save_document_changes(db, post)
       IN /\ db' = done.rows
          /\ http' = Some([view |-> "save", post |-> post, response |-> done.response])
          /\ last_save' =
               IF done.response.data.success
                 THEN Some([content_type |-> Get(post, "content_type", "quill"),
                            content |-> post.content_data.json])
                 ELSE None
  /\ clock' = clock + 1
  /\ UNCHANGED <<ext_vars, gen_vars, fn_vars>>

AutoSave ==
  /\ clock < MaxRequests
  /\ \E post \in AutoSavePosts, is_owner \in BOOLEAN :
       LET done == auto_save_document(db, post, is_owner, clock + 1)
       IN /\ db' = done.rows
          /\ http' = Some([view |-> "auto_save", post |-> post,
                           response |-> done.response])
  /\ last_save' = None
  /\ clock' = clock + 1
  /\ UNCHANGED <<ext_vars, gen_vars, fn_vars>>

NextViews ==
  \/ UploadDocument
  \/ ExtractContent
  \/ SaveChanges
  \/ AutoSave

InitViews == InitWith(File("missing", <<>>))

SpecViews == InitViews /\ [][NextViews]_vars

\* the last request asked for the content in the format of the last save,
\* and no save or auto-save came after that save
ExtractAfterSave ==
  /\ http # None
  /\ http[1].view = "extract"
  /\ last_save # None
  /\ Get(http[1].post, "format", "quill") = last_save[1].content_type

\* C25: after save_document_changes stored content c with content type T,
\* extract_document_content with format T answers success with content c,
\* as long as no later save or auto-save came
C25_SavedContentIsExtracted ==
  ExtractAfterSave => http[1].response = ContentResponse(last_save[1].content)

----------------------------------------------------------------------------
\* Documents whose pages differ in size, and the page rects on the canvas

\* a page of another size
Sized(page, width, height) == [page EXCEPT !.width = width, !.height = height]
\* A4, US Letter and A4 turned
SizedPages ==
  {RuledOnlyPage,
   Sized(RuledOnlyPage, 612, 792),
   Sized(RuledOnlyPage, DefaultPageHeight, DefaultPageWidth)}
SizedFiles ==
  {ValidFile(pages) : pages \in SeqsUpTo(SizedPages, MaxPages) \ {<<>>}}

InitCanvas == \E f \in SizedFiles : InitWith(f)

SpecCanvas == InitCanvas /\ [][Next]_vars

\* the page background rects, in the order of the pages
PageRects == SelectSeq(fabric[1].objects, LAMBDA o : o.role = "page")

\* C26: the page rects do not overlap vertically (the next page starts at
\* least the page spacing below the page before) and none ends below
\* canvasHeight
C26_PagesApartWithinCanvas ==
  (result # None /\ fabric # None) =>
    /\ \A k \in 1..(Len(PageRects) - 1) :
         PageRects[k + 1].top >=
           PageRects[k].top + PageRects[k].height + Px(PageSpacing)
    /\ \A k \in 1..Len(PageRects) :
         PageRects[k].top + PageRects[k].height <= fabric[1].canvasHeight

----------------------------------------------------------------------------
\* Properties of the shape of a detected table, checked under SpecHelpers

\* C27: in every table of either detection strategy num_rows is the number
\* of entries of rows and num_cols is the length of every row
C27_CountsAreShapeOfRows ==
  (LinesCall \/ TextCall) =>
    \A t \in Range(answer.tables) :
      /\ t.num_rows = Len(t.rows)
      /\ \A r \in 1..Len(t.rows) : Len(t.rows[r]) = t.num_cols

\* C28: in Strategy B no token is lost: each token of a line kept is the
\* text of the cell of that line's row in the column of its x
C28_EveryTokenIsACell ==
  TextCall =>
    \A t \in Range(answer.tables) :
      \A r \in 1..Len(answer.lines) : \A i \in 1..Len(answer.lines[r]) :
        \E c \in 1..Len(ColumnsKept) :
          /\ ColumnsKept[c] = ColumnOfToken(answer.lines[r][i])
          /\ t.rows[r][c] = answer.lines[r][i].text

----------------------------------------------------------------------------
\* Properties of a modification map, checked under SpecGen

\* the orders in which the entries of a map can be visited
Orders(items) ==
  {order \in [1..Len(items) -> Range(items)] : Range(order) = Range(items)}

\* C29: the document made with a modification map does not depend on the
\* order of the entries of the map
C29_OrderOfEntriesIsIrrelevant ==
  StructureCall =>
    \A order \in Orders(request.modifications.items) :
      LET other == generate_pdf_from_structure(
                     request.title, request.pdf_structure, Modifications(order))
      IN other.story = story /\ other.outcome = generated

----------------------------------------------------------------------------
\* Every line of a plain content is consumed once, checked under SpecGen

LineNumbers == 1..Len(RequestLines)
BlankLines == {i \in LineNumbers : RawLine(i) = <<>>}
\* lines that hold markers only
MarkerOnlyLines == {i \in LineNumbers : RawLine(i) # <<>> /\ CleanLine(i) = <<>>}
\* the lines that are rows: a run of tabular lines from a line k on that is
\* tabular without its markers too and is not the last line of the run
RowLines ==
  {i \in LineNumbers :
     \E k \in 1..i :
       /\ \A m \in k..i : Tabular(m)
       /\ Len(CleanLine(k)) >= 10 /\ SpaceRuns(CleanLine(k)) >= 2
       /\ k < i \/ (i < Len(RequestLines) /\ Tabular(i + 1))}
ParagraphLines == LineNumbers \ (BlankLines \cup MarkerOnlyLines \cup RowLines)
\* the lines whose Paragraph cannot be built
FailingLines ==
  {i \in ParagraphLines :
     Unparseable(line_paragraph(CleanLine(i), RawLine(i)).text)}
\* the flowables of the content, after the title block
ContentStory == SubSeq(story, 5, Len(story))
CountKind(kind) ==
  Cardinality({n \in 1..Len(ContentStory) : ContentStory[n].kind = kind})
TableRowCount ==
  SumSeq([n \in 1..Len(ContentStory) |->
            IF ContentStory[n].kind = "Table" THEN Len(ContentStory[n].data) ELSE 0])
\* one spacer for a blank line, nothing for a marker-only line, one
\* paragraph for a line of text, one row of one table for a line of a run
EveryLineOnce ==
  /\ CountKind("Paragraph") = Cardinality(ParagraphLines)
  /\ TableRowCount = Cardinality(RowLines)
  /\ CountKind("Spacer") = Cardinality(BlankLines) + 2 * CountKind("Table")

====
